---- MODULE Spec2Model ----
(***************************************************************************)
(* Flashpoint: historical fire-pattern analytics.                          *)
(*                                                                         *)
(*   - the spread index and predictor   (src/lib/directional-spread.ts)    *)
(*   - the IAP similarity matcher       (src/lib/iap/matcher.ts and the    *)
(*     scoring / reasoning / constants modules)                            *)
(*   - the perimeter processor          (src/lib/iap/index.ts)             *)
(*   - the terrain analyzer             (src/lib/terrain.ts)               *)
(*   - the AI insights service          (src/lib/ai/service.ts)            *)
(*                                                                         *)
(* Number representation.  The program computes in IEEE doubles; the model *)
(* computes in integers with fixed scales:                                 *)
(*   latitude / longitude   1 unit = 0.05 degree (a grid cell of 0.5       *)
(*                          degree is CellUnits = 10 units)                *)
(*   distance               1 unit = 10 m (100 units = 1 km)               *)
(*   timestamps, durations  1 unit = 1 hour (the program holds             *)
(*                          milliseconds and divides by 3,600,000)         *)
(*   rates                  10 m per hour                                  *)
(*   perimeter length       1 unit = 0.1 km; area 1 unit = 0.001 km2       *)
(*   quotients of the perimeter processor are kept as numerator and        *)
(*   denominator                                                           *)
(* calculateDistance (the haversine formula) is evaluated in the plane     *)
(* tangent at the reference latitude of the dataset (37 N): one unit of    *)
(* latitude is LatUnit x 10 m, one unit of longitude LonUnit x 10 m.       *)
(***************************************************************************)
EXTENDS Integers, Sequences, FiniteSets, TLC

VARIABLES
    queryData,    \* the features of query.json (static input of the index build)
    cachedIndex,  \* directional-spread.ts: let cachedIndex: SpreadIndex | null
    iapData,      \* the IAP records loadIAPData() returns
    call,         \* the last exported function called, with its arguments
    ret,          \* what that call returned
    args,         \* the arguments the functions of the terrain and geometry
                  \* modules are applied to
    build,        \* the position of the caller inside buildSpreadIndex()
    service       \* ai/service.ts: the cache, the rate limiter, the clock and
                  \* the requests waiting for the API

vars == <<queryData, cachedIndex, iapData, call, ret, args, build, service>>

\* no arguments drawn
NoArgs == <<>>

\* no caller is inside buildSpreadIndex(); count is the number of times the
\* dataset has been indexed since cachedIndex was last null
NoBuild == [pc |-> "idle", count |-> 0]

\* the AI insights service is not part of the run
NoService == [enabled |-> FALSE]

----------------------------------------------------------------------------
(* Bounds of the model *)

MaxFeatures == 3      \* features of query.json in Spec
MaxAnalogs == 16      \* features of query.json in SpecPredict
MaxIAPs == 4          \* records of the IAP dataset
MaxRecords == 3       \* raw records handed to processAllPerimeters
MaxExtent == 2        \* largest directional extent handed to calculateAspectRatio
MaxSlope == 520       \* largest slope handed to categorizeSlope, in 0.1 %
MaxRelief == 3        \* largest difference between sampled elevations, in metres
MaxBuilds == 2        \* index builds followed between two clearSpreadCache calls
MaxClock == 6         \* last reading of the clock of the AI service, in minutes
MaxVertices == 2      \* vertices of the ring handed to calculateDirectionalExtent
MaxStatFires == 4     \* fires handed to calculateSpreadStatistics on its own

----------------------------------------------------------------------------
(* Arithmetic and sequence helpers *)

Min(a, b) == IF a <= b THEN a ELSE b

Max(a, b) == IF a >= b THEN a ELSE b

Abs(a) == IF a < 0 THEN -a ELSE a

RECURSIVE SqrtSearch(_, _, _)
SqrtSearch(n, lo, hi) ==
    IF lo >= hi THEN lo
    ELSE LET mid == (lo + hi + 1) \div 2
         IN IF mid * mid <= n THEN SqrtSearch(n, mid, hi)
            ELSE SqrtSearch(n, lo, mid - 1)

\* Math.sqrt, rounded down to the unit
ISqrt(n) == SqrtSearch(n, 0, 46340)

SeqsUpTo(S, n) == UNION {[1..m -> S] : m \in 0..n}

\* Array.prototype.slice(0, n) for n >= 0
Slice(s, n) == SubSeq(s, 1, Min(n, Len(s)))

RECURSIVE Concat(_)
Concat(ss) == IF ss = <<>> THEN <<>> ELSE Head(ss) \o Concat(Tail(ss))

RECURSIVE SumSeq(_)
SumSeq(s) == IF s = <<>> THEN 0 ELSE Head(s) + SumSeq(Tail(s))

\* Array.prototype.sort with the comparator (a, b) => a.key - b.key: ascending
\* by key as ECMAScript specifies it, stable (equal keys keep their order)
RECURSIVE InsertByKey(_, _)
InsertByKey(sorted, x) ==
    IF sorted = <<>> THEN <<x>>
    ELSE IF Head(sorted).key <= x.key
         THEN <<Head(sorted)>> \o InsertByKey(Tail(sorted), x)
         ELSE <<x>> \o sorted

RECURSIVE SortByKey(_)
SortByKey(s) ==
    IF s = <<>> THEN <<>>
    ELSE InsertByKey(SortByKey(SubSeq(s, 1, Len(s) - 1)), s[Len(s)])

----------------------------------------------------------------------------
(* directional-spread.ts: distance and grid *)

CellUnits == 10
LatUnit == 556
LonUnit == 444
KmUnits == 100

calculateDistance(lat1, lon1, lat2, lon2) ==
    LET dy == (lat2 - lat1) * LatUnit
        dx == (lon2 - lon1) * LonUnit
    IN ISqrt(dy * dy + dx * dx)

\* the key "<gridLat>,<gridLon>" printed with one decimal: the south-west
\* corner of the 0.5 degree cell, which the pair of cell coordinates names
getGridKey(lat, lon) ==
    <<(lat \div CellUnits) * CellUnits, (lon \div CellUnits) * CellUnits>>

----------------------------------------------------------------------------
(* directional-spread.ts: analysis of one feature *)

\* the points of every ring of every polygon, in order
RECURSIVE CoordinatesOfPolygons(_)
CoordinatesOfPolygons(polygons) ==
    IF polygons = <<>> THEN <<>>
    ELSE Concat(Head(polygons)) \o CoordinatesOfPolygons(Tail(polygons))

extractAllCoordinates(geometry) == CoordinatesOfPolygons(geometry.coordinates)

RECURSIVE MinOf(_)
MinOf(s) == IF Len(s) = 1 THEN s[1] ELSE Min(s[1], MinOf(Tail(s)))

RECURSIVE MaxOf(_)
MaxOf(s) == IF Len(s) = 1 THEN s[1] ELSE Max(s[1], MaxOf(Tail(s)))

NaN == -1
Infinity == -2

\* extent / Math.max(durationHours, 0.1)
RateOf(extent, durationHours) ==
    IF durationHours >= 1 THEN extent \div durationHours ELSE extent * 10

\* Math.max(width, height) / Math.min(width, height), in hundredths; 0/0 is
\* NaN and x/0 is Infinity
ElongationOf(width, height) ==
    IF Min(width, height) = 0
    THEN (IF Max(width, height) = 0 THEN NaN ELSE Infinity)
    ELSE (Max(width, height) * 100) \div Min(width, height)

DominantDirectionOf(northExtent, southExtent, eastExtent, westExtent) ==
    LET maxExtent == Max(Max(northExtent, southExtent), Max(eastExtent, westExtent))
    IN IF northExtent * 100 > maxExtent * 95 /\ eastExtent * 100 > maxExtent * 80 THEN "NE"
       ELSE IF northExtent * 100 > maxExtent * 95 /\ westExtent * 100 > maxExtent * 80 THEN "NW"
       ELSE IF southExtent * 100 > maxExtent * 95 /\ eastExtent * 100 > maxExtent * 80 THEN "SE"
       ELSE IF southExtent * 100 > maxExtent * 95 /\ westExtent * 100 > maxExtent * 80 THEN "SW"
       ELSE IF northExtent >= maxExtent THEN "N"
       ELSE IF southExtent >= maxExtent THEN "S"
       ELSE IF eastExtent >= maxExtent THEN "E"
       ELSE IF westExtent >= maxExtent THEN "W"
       ELSE "UNIFORM"

\* (a + b) / 2 on doubles: the sum of two numbers of one binade is rounded to
\* an even multiple of their unit in the last place (round to nearest, ties
\* to even) and the halving is exact, so that the midpoint of two coordinates
\* an odd number of units apart is the neighbour with the even significand
Midpoint(a, b) ==
    LET sum == a + b
        below == sum \div 2
    IN IF sum % 2 = 0 \/ below % 2 = 0 THEN below ELSE below + 1

NullSpread == [isNull |-> TRUE]

analyzeFeatureSpread(feature) ==
    LET coords == extractAllCoordinates(feature.geometry)
    IN IF Len(coords) = 0 THEN NullSpread
       ELSE
       LET lats == [i \in 1..Len(coords) |-> coords[i][2]]
           lons == [i \in 1..Len(coords) |-> coords[i][1]]
           minLat == MinOf(lats)
           maxLat == MaxOf(lats)
           minLon == MinOf(lons)
           maxLon == MaxOf(lons)
           centerLat == Midpoint(minLat, maxLat)
           centerLon == Midpoint(minLon, maxLon)
           northExtent == calculateDistance(centerLat, centerLon, maxLat, centerLon)
           southExtent == calculateDistance(centerLat, centerLon, minLat, centerLon)
           eastExtent == calculateDistance(centerLat, centerLon, centerLat, maxLon)
           westExtent == calculateDistance(centerLat, centerLon, centerLat, minLon)
           durationHours ==
               IF feature.properties.CONT_DATE # 0 /\ feature.properties.ALARM_DATE # 0
               THEN feature.properties.CONT_DATE - feature.properties.ALARM_DATE ELSE 0
           northRate == RateOf(northExtent, durationHours)
           southRate == RateOf(southExtent, durationHours)
           eastRate == RateOf(eastExtent, durationHours)
           westRate == RateOf(westExtent, durationHours)
           width == eastExtent + westExtent
           height == northExtent + southExtent
       IN [isNull |-> FALSE,
           fireId |-> IF feature.properties.INC_NUM # "" THEN <<"INC_NUM", feature.properties.INC_NUM>>
                      ELSE <<"FIRE_", feature.id>>,
           fireName |-> IF feature.properties.FIRE_NAME # <<>> THEN feature.properties.FIRE_NAME
                        ELSE <<"U", "N", "K", "N", "O", "W", "N">>,
           year |-> feature.properties.YEAR_,
           acres |-> feature.properties.GIS_ACRES,
           durationHours |-> durationHours,
           bounds |-> [north |-> maxLat, south |-> minLat, east |-> maxLon,
                       west |-> minLon, centerLat |-> centerLat,
                       centerLon |-> centerLon],
           extents |-> [north |-> northExtent, south |-> southExtent,
                        east |-> eastExtent, west |-> westExtent],
           rates |-> [north |-> northRate, south |-> southRate, east |-> eastRate,
                      west |-> westRate,
                      avgRate |-> (northRate + southRate + eastRate + westRate) \div 4],
           shape |-> [aspectRatio |-> (width * 100) \div Max(height, 10),
                      dominantDirection |->
                          DominantDirectionOf(northExtent, southExtent, eastExtent, westExtent),
                      elongation |-> ElongationOf(width, height)]]

----------------------------------------------------------------------------
(* directional-spread.ts: the index.  A Map is the sequence of its entries *)
(* in insertion order, which is the order Map.prototype.entries() yields.  *)

MapHas(m, k) == \E i \in 1..Len(m) : m[i].key = k

MapGet(m, k) == m[CHOOSE i \in 1..Len(m) : m[i].key = k].val

\* if (!m.has(k)) m.set(k, []);  m.get(k).push(v)
MapPush(m, k, v) ==
    IF MapHas(m, k)
    THEN [i \in 1..Len(m) |-> IF m[i].key = k
                              THEN [key |-> k, val |-> Append(m[i].val, v)]
                              ELSE m[i]]
    ELSE Append(m, [key |-> k, val |-> <<v>>])

NoIndex == [present |-> FALSE]

EmptyIndex == [present |-> TRUE, byName |-> <<>>, byLocation |-> <<>>,
               byYear |-> <<>>, all |-> <<>>]

\* String.prototype.toUpperCase on the letters the model's names are made of
UpperOf(c) ==
    CASE c = "a" -> "A" [] c = "b" -> "B" [] c = "c" -> "C" [] c = "m" -> "M"
      [] c = "p" -> "P" [] c = "o" -> "O" [] OTHER -> c

toUpperCase(str) == [i \in 1..Len(str) |-> UpperOf(str[i])]

\* String.prototype.includes
includes(str, search) ==
    \E off \in 0..(Len(str) - Len(search)) :
        \A i \in 1..Len(search) : str[off + i] = search[i]

\* mutation of IndexFeature: the fire is not pushed to the flat collection
IndexFeature_NoFlatEntry(index, feature) ==
    LET spread == analyzeFeatureSpread(feature)
    IN IF spread.isNull THEN index
       ELSE [present |-> TRUE,
             all |-> index.all,
             byName |-> MapPush(index.byName, toUpperCase(spread.fireName), spread),
             byLocation |-> MapPush(index.byLocation,
                                    getGridKey(spread.bounds.centerLat,
                                               spread.bounds.centerLon),
                                    spread),
             byYear |-> MapPush(index.byYear, spread.year, spread)]

\* one iteration of the loop over data.features
IndexFeature(index, feature) ==
    LET spread == analyzeFeatureSpread(feature)
    IN IF spread.isNull THEN index
       ELSE [present |-> TRUE,
             all |-> Append(index.all, spread),
             byName |-> MapPush(index.byName, toUpperCase(spread.fireName), spread),
             byLocation |-> MapPush(index.byLocation,
                                    getGridKey(spread.bounds.centerLat,
                                               spread.bounds.centerLon),
                                    spread),
             byYear |-> MapPush(index.byYear, spread.year, spread)]

RECURSIVE IndexFeatures(_, _)
IndexFeatures(index, features) ==
    IF features = <<>> THEN index
    ELSE IndexFeatures(IndexFeature(index, Head(features)), Tail(features))

\* the value buildSpreadIndex() returns, which is also the value of
\* cachedIndex when it returns
buildSpreadIndex ==
    IF cachedIndex.present THEN cachedIndex
    ELSE IndexFeatures(EmptyIndex, queryData)

----------------------------------------------------------------------------
(* directional-spread.ts: queries *)

\* Math.ceil(radiusKm / 50)
CellRadiusOf(radiusKm) == (radiusKm + 49) \div 50

\* the keys added to gridKeys, in the order of the two nested loops
GridKeysOf(lat, lon, radiusKm) ==
    LET cellRadius == CellRadiusOf(radiusKm)
        side == 2 * cellRadius + 1
    IN [k \in 1..(side * side) |->
           LET dLat == ((k - 1) \div side) - cellRadius
               dLon == ((k - 1) % side) - cellRadius
           IN getGridKey((lat \div CellUnits) * CellUnits + dLat * CellUnits,
                         (lon \div CellUnits) * CellUnits + dLon * CellUnits)]

CandidatesOf(index, gridKeys) ==
    Concat([k \in 1..Len(gridKeys) |->
               IF MapHas(index.byLocation, gridKeys[k])
               THEN MapGet(index.byLocation, gridKeys[k]) ELSE <<>>])

RECURSIVE SelectSeq2(_, _)
SelectSeq2(s, bound) ==
    IF s = <<>> THEN <<>>
    ELSE IF Head(s).key <= bound THEN <<Head(s)>> \o SelectSeq2(Tail(s), bound)
         ELSE SelectSeq2(Tail(s), bound)

\* mutation of WithinRadius: the distance filter left out
WithinRadius_NoFilter(items, radiusKm) == items

\* .filter(item => item.distance <= radiusKm)
WithinRadius(items, radiusKm) == SelectSeq2(items, radiusKm * KmUnits)

\* .sort((a, b) => a.distance - b.distance)
SortByDistance(items) == SortByKey(items)

findFiresNearLocation(index, lat, lon, radiusKm, limit) ==
    LET candidates == CandidatesOf(index, GridKeysOf(lat, lon, radiusKm))
        items == [i \in 1..Len(candidates) |->
                     [fire |-> candidates[i],
                      key |-> calculateDistance(lat, lon,
                                                candidates[i].bounds.centerLat,
                                                candidates[i].bounds.centerLon)]]
        nearby == Slice(SortByDistance(WithinRadius(items, radiusKm)), limit)
    IN [i \in 1..Len(nearby) |-> nearby[i].fire]

findFiresByName(index, name, limit) ==
    LET searchName == toUpperCase(name)
        results == Concat([i \in 1..Len(index.byName) |->
                              IF includes(index.byName[i].key, searchName)
                              THEN index.byName[i].val ELSE <<>>])
    IN Slice(results, limit)

\* mutation of SortByRecency: the re-sort by year left out
SortByRecency_Unsorted(nearby) == nearby

\* nearby.sort((a, b) => b.year - a.year)
SortByRecency(nearby) ==
    LET keyed == SortByKey([i \in 1..Len(nearby) |->
                               [fire |-> nearby[i], key |-> -nearby[i].year]])
    IN [i \in 1..Len(keyed) |-> keyed[i].fire]

findSimilarFires(index, incident, radiusKm, limit) ==
    LET nearby == findFiresNearLocation(index, incident.lat, incident.lon,
                                        radiusKm, limit * 2)
    IN Slice(SortByRecency(nearby), limit)

\* mutation of IndexAfterSort: the sort applied to the lists of byLocation
IndexAfterSort_Shared(index) ==
    [index EXCEPT !.byLocation =
        [i \in 1..Len(index.byLocation) |->
            [key |-> index.byLocation[i].key,
             val |-> SortByRecency(index.byLocation[i].val)]]]

\* the index after nearby.sort(...) in findSimilarFires: Array.prototype.sort
\* sorts in place, and nearby is the array that .map(item => item.fire) made
\* in findFiresNearLocation, which is no list of the index
IndexAfterSort(index) == index

\* the index after a query: findSimilarFires sorts, and predictSpreadPattern
\* calls findSimilarFires; the other queries only read
IndexAfterQuery(index, op) ==
    IF op \in {"findSimilarFires", "predictSpreadPattern"} THEN IndexAfterSort(index)
    ELSE index

\* the Map directionCounts after the loop over fires
RECURSIVE DirectionCounts(_, _)
DirectionCounts(counts, fires) ==
    IF fires = <<>> THEN counts
    ELSE LET dir == Head(fires).shape.dominantDirection
             next == IF MapHas(counts, dir)
                     THEN [i \in 1..Len(counts) |->
                              IF counts[i].key = dir
                              THEN [key |-> dir, val |-> counts[i].val + 1]
                              ELSE counts[i]]
                     ELSE Append(counts, [key |-> dir, val |-> 1])
         IN DirectionCounts(next, Tail(fires))

\* mutation of MostCommon: a direction that equals the largest count takes over
RECURSIVE MostCommon_OrEquals(_, _, _)
MostCommon_OrEquals(counts, maxCount, dominantDirection) ==
    IF counts = <<>> THEN dominantDirection
    ELSE IF Head(counts).val >= maxCount
         THEN MostCommon_OrEquals(Tail(counts), Head(counts).val, Head(counts).key)
         ELSE MostCommon_OrEquals(Tail(counts), maxCount, dominantDirection)

\* the loop "if (count > maxCount) { maxCount = count; dominantDirection = dir }"
RECURSIVE MostCommon(_, _, _)
MostCommon(counts, maxCount, dominantDirection) ==
    IF counts = <<>> THEN dominantDirection
    ELSE IF Head(counts).val > maxCount
         THEN MostCommon(Tail(counts), Head(counts).val, Head(counts).key)
         ELSE MostCommon(Tail(counts), maxCount, dominantDirection)

\* the mean of the elongations, in hundredths: a sum with a NaN term is NaN,
\* a sum with an Infinity term and no NaN term is Infinity
AvgElongationOf(fires) ==
    IF \E i \in 1..Len(fires) : fires[i].shape.elongation = NaN THEN NaN
    ELSE IF \E i \in 1..Len(fires) : fires[i].shape.elongation = Infinity THEN Infinity
    ELSE SumSeq([i \in 1..Len(fires) |-> fires[i].shape.elongation]) \div Len(fires)

calculateSpreadStatistics(fires) ==
    IF Len(fires) = 0
    THEN [avgNorthRate |-> 0, avgSouthRate |-> 0, avgEastRate |-> 0,
          avgWestRate |-> 0, dominantDirection |-> "UNKNOWN", avgElongation |-> 100]
    ELSE [avgNorthRate |-> SumSeq([i \in 1..Len(fires) |-> fires[i].rates.north]) \div Len(fires),
          avgSouthRate |-> SumSeq([i \in 1..Len(fires) |-> fires[i].rates.south]) \div Len(fires),
          avgEastRate |-> SumSeq([i \in 1..Len(fires) |-> fires[i].rates.east]) \div Len(fires),
          avgWestRate |-> SumSeq([i \in 1..Len(fires) |-> fires[i].rates.west]) \div Len(fires),
          dominantDirection |-> MostCommon(DirectionCounts(<<>>, fires), 0, "UNIFORM"),
          avgElongation |-> AvgElongationOf(fires)]

\* Math.round(degrees / 22.5) % 16, for degrees >= 0
getCardinalDirection(degrees) ==
    LET directions == <<"N", "NNE", "NE", "ENE", "E", "ESE", "SE", "SSE",
                        "S", "SSW", "SW", "WSW", "W", "WNW", "NW", "NNW">>
    IN directions[(((4 * degrees + 45) \div 90) % 16) + 1]

PredictRadiusKm == 100
PredictLimit == 15

\* mutation of ConfidenceOf: strict comparisons
ConfidenceOf_Strict(n) == IF n > 10 THEN "high" ELSE IF n > 5 THEN "medium" ELSE "low"

ConfidenceOf(n) == IF n >= 10 THEN "high" ELSE IF n >= 5 THEN "medium" ELSE "low"

NoneFoundPrediction ==
    [similarFires |-> <<>>,
     prediction |-> [likelyDirection |-> "UNKNOWN",
                     expectedRates |-> [north |-> 0, south |-> 0, east |-> 0, west |-> 0],
                     confidence |-> "low",
                     reasoning |-> << <<"No similar historical fires found in the area">> >>]]

\* mutation of predictSpreadPattern: the early return for no analogs left out
predictSpreadPattern_NoEarlyReturn(index, incident, windDirDeg) ==
    LET similarFires == findSimilarFires(index, incident, PredictRadiusKm, PredictLimit)
        stats == calculateSpreadStatistics(similarFires)
    IN [similarFires |-> similarFires,
        prediction |->
            [likelyDirection |-> stats.dominantDirection,
             expectedRates |-> [north |-> stats.avgNorthRate,
                                south |-> stats.avgSouthRate,
                                east |-> stats.avgEastRate,
                                west |-> stats.avgWestRate],
             confidence |-> ConfidenceOf(Len(similarFires)),
             reasoning |->
                 << <<"Found similar fires within 100km", Len(similarFires)>>,
                    <<"Historical dominant direction", stats.dominantDirection>>,
                    <<"Current wind from", getCardinalDirection(windDirDeg)>>,
                    <<"Avg expansion rates", stats.avgNorthRate>> >>]]

predictSpreadPattern(index, incident, windDirDeg) ==
    LET similarFires == findSimilarFires(index, incident, PredictRadiusKm, PredictLimit)
        stats == calculateSpreadStatistics(similarFires)
    IN IF Len(similarFires) = 0 THEN NoneFoundPrediction
       ELSE [similarFires |-> similarFires,
             prediction |->
                 [likelyDirection |-> stats.dominantDirection,
                  expectedRates |-> [north |-> stats.avgNorthRate,
                                     south |-> stats.avgSouthRate,
                                     east |-> stats.avgEastRate,
                                     west |-> stats.avgWestRate],
                  confidence |-> ConfidenceOf(Len(similarFires)),
                  reasoning |->
                      << <<"Found similar fires within 100km", Len(similarFires)>>,
                         <<"Historical dominant direction", stats.dominantDirection>>,
                         <<"Current wind from", getCardinalDirection(windDirDeg)>>,
                         <<"Avg expansion rates", stats.avgNorthRate>> >>]]

----------------------------------------------------------------------------
(* Inputs of the spread index: features of query.json and query arguments *)

\* the closed ring around the box south..north x west..east
BoxRing(south, north, west, east) ==
    << <<west, south>>, <<east, south>>, <<east, north>>, <<west, north>>,
       <<west, south>> >>

\* a MultiPolygon of one polygon with one ring
BoxGeometry(south, north, west, east) ==
    [type |-> "MultiPolygon",
     coordinates |-> << << BoxRing(south, north, west, east) >> >>]

NoGeometry == [type |-> "MultiPolygon", coordinates |-> <<>>]

FeatureCatalogue ==
    { [id |-> "1",
       properties |-> [FIRE_NAME |-> <<"C", "a", "m", "p">>, INC_NUM |-> "CA-1",
                       YEAR_ |-> 2018, ALARM_DATE |-> 100, CONT_DATE |-> 124, GIS_ACRES |-> 900],
       geometry |-> BoxGeometry(742, 746, -2438, -2434)],
      [id |-> "2",
       properties |-> [FIRE_NAME |-> <<"C", "A", "M", "P", "O">>, INC_NUM |-> "",
                       YEAR_ |-> 2020, ALARM_DATE |-> 200, CONT_DATE |-> 0, GIS_ACRES |-> 50],
       geometry |-> BoxGeometry(760, 762, -2440, -2430)],
      [id |-> "4",
       properties |-> [FIRE_NAME |-> <<>>, INC_NUM |-> "CA-4",
                       YEAR_ |-> 2021, ALARM_DATE |-> 400, CONT_DATE |-> 448, GIS_ACRES |-> 70],
       geometry |-> BoxGeometry(800, 802, -2436, -2434)],
      [id |-> "5",
       properties |-> [FIRE_NAME |-> <<"C", "a", "m", "p">>, INC_NUM |-> "CA-5",
                       YEAR_ |-> 2019, ALARM_DATE |-> 500, CONT_DATE |-> 520, GIS_ACRES |-> 10],
       geometry |-> NoGeometry] }

\* the n features of a dataset of analogs: in pattern 1 every fire is 7 km
\* from the first incident, in pattern 2 every second fire is 300 km away, in
\* pattern 3 every fire is 89 km away
AnalogData(n, pattern) ==
    [i \in 1..n |->
        [id |-> "a",
         properties |-> [FIRE_NAME |-> <<"C", "a", "m", "p">>, INC_NUM |-> "CA-A",
                         YEAR_ |-> 2000 + ((i * 7) % 5), ALARM_DATE |-> 100,
                         CONT_DATE |-> 100 + i, GIS_ACRES |-> 100 * i],
         geometry |->
             IF pattern = 1 \/ (pattern = 2 /\ i % 2 = 1)
             THEN BoxGeometry(742, 746, -2438, -2434 + 2 * (i % 3))
             ELSE IF pattern = 2 THEN BoxGeometry(800, 802, -2436, -2434)
             ELSE BoxGeometry(760, 762, -2440, -2430)]]

AnalogPatterns == 1..3

Incidents ==
    { [lat |-> 745, lon |-> -2435, fuelProxy |-> "brush", radiusMeters |-> 1000],
      [lat |-> 740, lon |-> -2440, fuelProxy |-> "brush", radiusMeters |-> 1000] }

RadiiKm == {50, 100}
Limits == {0, 1, 2}
SimilarLimits == {1, 2}
SearchNames == { <<"c", "a", "m", "p">>, <<"p", "o">> }
WindDirections == {0, 100}

----------------------------------------------------------------------------
(* The exported functions of directional-spread.ts.  Each query first calls *)
(* buildSpreadIndex(), which stores the index it returns in cachedIndex;    *)
(* cachedIndex holds the lists of the index as the query leaves them.       *)

FindFiresNearLocation(lat, lon, radiusKm, limit) ==
    /\ cachedIndex' = IndexAfterQuery(buildSpreadIndex, "findFiresNearLocation")
    /\ call' = [op |-> "findFiresNearLocation", lat |-> lat, lon |-> lon,
                radiusKm |-> radiusKm, limit |-> limit]
    /\ ret' = findFiresNearLocation(buildSpreadIndex, lat, lon, radiusKm, limit)
    /\ UNCHANGED <<queryData, iapData, args, build, service>>

FindFiresByName(name, limit) ==
    /\ cachedIndex' = IndexAfterQuery(buildSpreadIndex, "findFiresByName")
    /\ call' = [op |-> "findFiresByName", name |-> name, limit |-> limit]
    /\ ret' = findFiresByName(buildSpreadIndex, name, limit)
    /\ UNCHANGED <<queryData, iapData, args, build, service>>

FindSimilarFires(incident, radiusKm, limit) ==
    /\ cachedIndex' = IndexAfterQuery(buildSpreadIndex, "findSimilarFires")
    /\ call' = [op |-> "findSimilarFires", incident |-> incident,
                radiusKm |-> radiusKm, limit |-> limit]
    /\ ret' = findSimilarFires(buildSpreadIndex, incident, radiusKm, limit)
    /\ UNCHANGED <<queryData, iapData, args, build, service>>

PredictSpreadPattern(incident, windDirDeg) ==
    /\ cachedIndex' = IndexAfterQuery(buildSpreadIndex, "predictSpreadPattern")
    /\ call' = [op |-> "predictSpreadPattern", incident |-> incident,
                windDirDeg |-> windDirDeg]
    /\ ret' = predictSpreadPattern(buildSpreadIndex, incident, windDirDeg)
    /\ UNCHANGED <<queryData, iapData, args, build, service>>

\* a call is made when no other call is running: the functions of the module
\* are synchronous
ClearSpreadCache ==
    /\ build.pc = "idle"
    /\ cachedIndex' = NoIndex
    /\ build' = NoBuild
    /\ call' = [op |-> "clearSpreadCache"]
    /\ ret' = <<>>
    /\ UNCHANGED <<queryData, iapData, args, service>>

NoCall == [op |-> "none"]

Init ==
    /\ queryData \in SeqsUpTo(FeatureCatalogue, MaxFeatures)
    /\ cachedIndex = NoIndex
    /\ iapData = <<>>
    /\ call = NoCall
    /\ ret = <<>>
    /\ args = NoArgs
    /\ build = NoBuild
    /\ service = NoService

Next ==
    \/ \E i \in Incidents, r \in RadiiKm, l \in Limits :
           FindFiresNearLocation(i.lat, i.lon, r, l)
    \/ \E n \in SearchNames, l \in SimilarLimits : FindFiresByName(n, l)
    \/ \E i \in Incidents, r \in RadiiKm, l \in SimilarLimits : FindSimilarFires(i, r, l)
    \/ \E i \in Incidents, w \in WindDirections : PredictSpreadPattern(i, w)
    \/ ClearSpreadCache

Spec == Init /\ [][Next]_vars

InitPredict ==
    /\ queryData \in {AnalogData(n, p) : n \in 0..MaxAnalogs, p \in AnalogPatterns}
    /\ cachedIndex = NoIndex
    /\ iapData = <<>>
    /\ call = NoCall
    /\ ret = <<>>
    /\ args = NoArgs
    /\ build = NoBuild
    /\ service = NoService

SpecPredict == InitPredict /\ [][Next]_vars

----------------------------------------------------------------------------
(* Properties of the spread index and predictor *)

DistanceTo(lat, lon, fire) ==
    calculateDistance(lat, lon, fire.bounds.centerLat, fire.bounds.centerLon)

\* every fire the dataset yields, whether or not a query finds it
AllFires == IndexFeatures(EmptyIndex, queryData).all

\* C5: findFiresNearLocation returns at most `limit` fires, each within
\* radiusKm of the query point, in non-decreasing order of distance
C5_NearWithinRadiusSorted ==
    call.op = "findFiresNearLocation" =>
        /\ Len(ret) <= call.limit
        /\ \A i \in 1..Len(ret) :
               DistanceTo(call.lat, call.lon, ret[i]) <= call.radiusKm * KmUnits
        /\ \A i, j \in 1..Len(ret) :
               i < j => DistanceTo(call.lat, call.lon, ret[i])
                            <= DistanceTo(call.lat, call.lon, ret[j])

\* a query that returned two fires at different distances, cut by its limit,
\* over a dataset that also holds a fire beyond the radius
C5_Witness ==
    /\ call.op = "findFiresNearLocation"
    /\ Len(ret) = 2 /\ call.limit = 2
    /\ DistanceTo(call.lat, call.lon, ret[1]) < DistanceTo(call.lat, call.lon, ret[2])
    /\ \E i \in 1..Len(AllFires) :
           DistanceTo(call.lat, call.lon, AllFires[i]) > call.radiusKm * KmUnits

IsNonIncreasingByYear(fires) ==
    \A i, j \in 1..Len(fires) : i < j => fires[i].year >= fires[j].year

\* C6: findSimilarFires returns at most `limit` fires in non-increasing order
\* of year, each of them a fire findFiresNearLocation returns for the
\* incident's coordinates and the same radius (hence within the radius)
C6_SimilarByYearAmongNear ==
    call.op = "findSimilarFires" =>
        LET near == findFiresNearLocation(cachedIndex, call.incident.lat,
                                          call.incident.lon, call.radiusKm,
                                          call.limit * 2)
        IN /\ Len(ret) <= call.limit
           /\ IsNonIncreasingByYear(ret)
           /\ \A i \in 1..Len(ret) :
                  /\ \E j \in 1..Len(near) : near[j] = ret[i]
                  /\ DistanceTo(call.incident.lat, call.incident.lon, ret[i])
                         <= call.radiusKm * KmUnits

\* two fires returned, the more recent first although it is the farther one
C6_Witness ==
    /\ call.op = "findSimilarFires"
    /\ Len(ret) = 2
    /\ ret[1].year > ret[2].year
    /\ DistanceTo(call.incident.lat, call.incident.lon, ret[1])
           > DistanceTo(call.incident.lat, call.incident.lon, ret[2])

\* C7: the confidence of predictSpreadPattern by the number n of analogs
\* returned (n <= 15): 0 -> low and UNKNOWN, 1..4 -> low, 5..9 -> medium,
\* 10 and more -> high
C7_ConfidenceByAnalogCount ==
    call.op = "predictSpreadPattern" =>
        LET n == Len(ret.similarFires)
            confidence == ret.prediction.confidence
        IN /\ n <= 15
           /\ n = 0 => confidence = "low" /\ ret.prediction.likelyDirection = "UNKNOWN"
           /\ (1 <= n /\ n <= 4) => confidence = "low"
           /\ (5 <= n /\ n <= 9) => confidence = "medium"
           /\ n >= 10 => confidence = "high"

\* a prediction from exactly 10 analogs, the lowest count that gives "high"
C7_Witness ==
    /\ call.op = "predictSpreadPattern"
    /\ Len(ret.similarFires) = 10
    /\ ret.prediction.confidence = "high"

NoFireWithin(lat, lon, radiusKm) ==
    \A i \in 1..Len(AllFires) :
        DistanceTo(lat, lon, AllFires[i]) > radiusKm * KmUnits

\* C8: with no indexed fire within 100 km of the incident, predictSpreadPattern
\* returns no similar fires, direction UNKNOWN, four rates of 0, confidence
\* low and a reasoning list of one string
C8_NoAnalogsPrediction ==
    (/\ call.op = "predictSpreadPattern"
     /\ NoFireWithin(call.incident.lat, call.incident.lon, 100)) =>
        /\ ret.similarFires = <<>>
        /\ ret.prediction.likelyDirection = "UNKNOWN"
        /\ ret.prediction.expectedRates = [north |-> 0, south |-> 0, east |-> 0, west |-> 0]
        /\ ret.prediction.confidence = "low"
        /\ Len(ret.prediction.reasoning) = 1

\* a prediction over an index that holds fires, all of them beyond 100 km
C8_Witness ==
    /\ call.op = "predictSpreadPattern"
    /\ Len(AllFires) >= 1
    /\ NoFireWithin(call.incident.lat, call.incident.lon, 100)
    /\ ret.similarFires = <<>>

----------------------------------------------------------------------------
(* IAP matcher: constants (the constants module) *)

FUEL_COMPATIBILITY_MAP ==
    [grass |-> {"grass", "mixed"},
     brush |-> {"brush", "chaparral", "mixed"},
     mixed |-> {"mixed", "grass", "brush"},
     chaparral |-> {"chaparral", "brush"}]

RELEVANT_SECTIONS ==
    [tactics |-> {"ICS-202", "ICS-204", "ICS-220"},
     resources |-> {"ICS-203", "ICS-204"},
     evacuation |-> {"ICS-202"}]

MIN_IAP_SCORE == 60
MAX_IAP_INSIGHTS == 3

CardTypes == {"evacuation", "resources", "tactics"}

\* FUEL_COMPATIBILITY_MAP[incident.fuelProxy]?.includes(fuel)
IsCompatibleFuel(fuelProxy, fuel) ==
    /\ fuelProxy \in DOMAIN FUEL_COMPATIBILITY_MAP
    /\ fuel \in FUEL_COMPATIBILITY_MAP[fuelProxy]

----------------------------------------------------------------------------
(* A text is the set of the keywords that occur in it: the program only    *)
(* asks whether a keyword occurs (String.prototype.includes, RegExp.test). *)
(* An absent or empty string is [present |-> FALSE].                       *)

\* lowerText.includes(kw): "e-facing" also occurs inside "ne-facing" and
\* "se-facing", "w-facing" inside "nw-facing" and "sw-facing"
TextIncludes(text, kw) ==
    \/ kw \in text.words
    \/ kw = "e-facing" /\ text.words \cap {"ne-facing", "se-facing"} # {}
    \/ kw = "w-facing" /\ text.words \cap {"nw-facing", "sw-facing"} # {}
    \/ kw = "e facing" /\ text.words \cap {"ne facing", "se facing"} # {}
    \/ kw = "w facing" /\ text.words \cap {"nw facing", "sw facing"} # {}
    \/ kw = "flat" /\ text.words \cap {"flat-facing", "flat facing"} # {}

\* currentMetrics.aspect.toLowerCase() + '-facing'
FacingDash ==
    [N |-> "n-facing", NE |-> "ne-facing", E |-> "e-facing", SE |-> "se-facing",
     S |-> "s-facing", SW |-> "sw-facing", W |-> "w-facing", NW |-> "nw-facing",
     flat |-> "flat-facing"]

\* currentMetrics.aspect.toLowerCase() + ' facing'
FacingSpace ==
    [N |-> "n facing", NE |-> "ne facing", E |-> "e facing", SE |-> "se facing",
     S |-> "s facing", SW |-> "sw facing", W |-> "w facing", NW |-> "nw facing",
     flat |-> "flat facing"]

----------------------------------------------------------------------------
(* terrain.ts: calculateTerrainSimilarity *)

calculateTerrainSimilarity(currentMetrics, iapText) ==
    LET slopeScore ==
            IF currentMetrics.slope > 25
               /\ (TextIncludes(iapText, "steep") \/ TextIncludes(iapText, "rugged"))
            THEN 30
            ELSE IF currentMetrics.slope > 15 /\ TextIncludes(iapText, "slope")
            THEN 20
            ELSE IF currentMetrics.slope < 10
                    /\ (TextIncludes(iapText, "flat") \/ TextIncludes(iapText, "level"))
            THEN 25
            ELSE 0
        ridgeScore ==
            IF currentMetrics.nearbyRidgeline /\ TextIncludes(iapText, "ridge")
            THEN 25 ELSE 0
        keywordScore ==
            IF \E kw \in {"terrain", "topography", "elevation", "canyon", "valley"} :
                   TextIncludes(iapText, kw)
            THEN 15 ELSE 0
        aspectScore ==
            IF \/ TextIncludes(iapText, FacingDash[currentMetrics.aspect])
               \/ TextIncludes(iapText, FacingSpace[currentMetrics.aspect])
            THEN 10 ELSE 0
    IN Min(slopeScore + ridgeScore + keywordScore + aspectScore, 100)

----------------------------------------------------------------------------
(* IAP matcher: scoring module *)

\* Math.PI * radiusKm * radiusKm * 247.105, in whole acres
EstimatedAcres(radiusMeters) ==
    ((radiusMeters \div 10) * (radiusMeters \div 10) * 7763) \div 100000

\* mutation of FuelPoints: no points for a compatible fuel
FuelPoints_ExactOnly(incident, iap) ==
    IF iap.conditions.fuel # ""
    THEN (IF iap.conditions.fuel = incident.fuelProxy THEN 25 ELSE 0)
    ELSE 0

FuelPoints(incident, iap) ==
    IF iap.conditions.fuel # ""
    THEN (IF iap.conditions.fuel = incident.fuelProxy THEN 25
          ELSE IF IsCompatibleFuel(incident.fuelProxy, iap.conditions.fuel) THEN 12
          ELSE 0)
    ELSE 0

WindPoints(weather, iap) ==
    IF iap.conditions.weather.present /\ iap.conditions.weather.hasWind
    THEN LET windDiff == Abs(weather.windSpeedMps - iap.conditions.weather.windSpeedMps)
         IN IF windDiff <= 3 THEN 15
            ELSE IF windDiff <= 7 THEN 8
            ELSE IF windDiff <= 12 THEN 3
            ELSE 0
    ELSE 0

HumidityPoints(weather, iap) ==
    IF iap.conditions.weather.present /\ iap.conditions.weather.hasHumidity
    THEN LET humidityDiff == Abs(weather.humidityPct - iap.conditions.weather.humidityPct)
         IN IF humidityDiff <= 10 THEN 10
            ELSE IF humidityDiff <= 20 THEN 5
            ELSE IF humidityDiff <= 30 THEN 2
            ELSE 0
    ELSE 0

\* twice the scale term, sizeRatio * 15 doubled and rounded down, so that the
\* final Math.round can round the half up
ScalePointsTimes2(incident, iap) ==
    IF iap.conditions.acres # 0
    THEN LET estimatedAcres == EstimatedAcres(incident.radiusMeters)
         IN (30 * Min(estimatedAcres, iap.conditions.acres))
                \div Max(estimatedAcres, iap.conditions.acres)
    ELSE 14

HasRelevantSections(cardType, iap) ==
    \E i \in 1..Len(iap.sections) :
        iap.sections[i].type \in RELEVANT_SECTIONS[cardType]

SectionPoints(cardType, iap) ==
    IF HasRelevantSections(cardType, iap) THEN 25
    ELSE IF Len(iap.sections) > 0 THEN 10
    ELSE 0

\* mutation of TerrainPoints: the terrain term added for every card type
TerrainPoints_AnyCard(cardType, iap, terrain) ==
    IF terrain.present /\ iap.rawText.present
    THEN calculateTerrainSimilarity(terrain, iap.rawText) \div 5
    ELSE 0

\* (terrainScore / 100) * 20: terrainScore is a multiple of 5
TerrainPoints(cardType, iap, terrain) ==
    IF cardType = "tactics" /\ terrain.present /\ iap.rawText.present
    THEN calculateTerrainSimilarity(terrain, iap.rawText) \div 5
    ELSE 0

\* Math.round(score): the integer terms plus the scale term rounded half up
calculateIAPSimilarity(incident, weather, cardType, iap, terrain) ==
    FuelPoints(incident, iap) + WindPoints(weather, iap) + HumidityPoints(weather, iap)
        + SectionPoints(cardType, iap) + TerrainPoints(cardType, iap, terrain)
        + ((ScalePointsTimes2(incident, iap) + 1) \div 2)

----------------------------------------------------------------------------
(* IAP matcher: reasoning module.  A bullet is named by its template. *)

FocusReasoning(weather, iap, cardType) ==
    IF cardType = "evacuation"
    THEN (IF iap.conditions.weather.present
          THEN (IF iap.conditions.weather.hasWind
                   /\ Abs(weather.windSpeedMps - iap.conditions.weather.windSpeedMps) <= 5
                THEN <<"Similar wind conditions">> ELSE <<>>)
               \o (IF iap.conditions.weather.hasHumidity
                      /\ iap.conditions.weather.humidityPct < 25
                   THEN <<"Low humidity drove rapid spread">> ELSE <<>>)
          ELSE <<>>)
    ELSE IF cardType = "resources"
    THEN (IF iap.conditions.acres # 0
          THEN <<"acre fire - resource patterns applicable">> ELSE <<>>)
         \o (IF \E i \in 1..Len(iap.sections) :
                    iap.sections[i].type \in {"ICS-203", "ICS-204"}
             THEN <<"Documented resource assignments and effectiveness">> ELSE <<>>)
    ELSE (IF iap.location.county # ""
          THEN <<"Similar California terrain in County">> ELSE <<>>)
         \o (IF \E i \in 1..Len(iap.sections) : iap.sections[i].type = "ICS-204"
             THEN <<"Terrain-based tactical assignments documented">> ELSE <<>>)
         \o (IF iap.rawText.present
                /\ \E kw \in {"steep", "slope", "ridge", "terrain", "uphill", "downhill"} :
                       TextIncludes(iap.rawText, kw)
             THEN <<"IAP describes similar terrain features">> ELSE <<>>)

FuelReasoning(incident, iap) ==
    IF iap.conditions.fuel = incident.fuelProxy THEN <<"Exact fuel type match">>
    ELSE IF iap.conditions.fuel # ""
            /\ IsCompatibleFuel(incident.fuelProxy, iap.conditions.fuel)
    THEN <<"Compatible fuel">>
    ELSE <<>>

\* if (reasoning.length < 2) reasoning.push(`Overall relevance: ${score}%`)
PadReasoning(reasoning) ==
    IF Len(reasoning) < 2 THEN Append(reasoning, "Overall relevance") ELSE reasoning

generateReasoning(incident, weather, iap, score, cardType) ==
    Slice(PadReasoning(FocusReasoning(weather, iap, cardType)
                       \o FuelReasoning(incident, iap)), 3)

----------------------------------------------------------------------------
(* IAP matcher: snippet-extractor module.  The snippet is named by where    *)
(* its sentences were found; a section, the tactical lessons and the raw    *)
(* text each carry the card types whose focus keywords occur in them.       *)

extractTacticalSnippet(section, cardType, iap) ==
    IF cardType \in section.focusFor THEN "section sentences"
    ELSE IF cardType \in iap.lessonsFocusFor THEN "tactical lessons"
    ELSE IF iap.rawText.present /\ cardType \in iap.rawText.focusFor
    THEN "raw text sentences"
    ELSE "first sentences of the section"

----------------------------------------------------------------------------
(* IAP matcher: findRelevantIAPs *)

\* iapData.map(iap => ({ iap, score: calculateIAPSimilarity(...) }))
ScoreAll(data, incident, weather, cardType, terrain) ==
    [i \in 1..Len(data) |->
        [iap |-> data[i],
         score |-> calculateIAPSimilarity(incident, weather, cardType, data[i], terrain)]]

RECURSIVE SelectByScore(_, _)
SelectByScore(scored, minScore) ==
    IF scored = <<>> THEN <<>>
    ELSE IF Head(scored).score >= minScore
         THEN <<Head(scored)>> \o SelectByScore(Tail(scored), minScore)
         ELSE SelectByScore(Tail(scored), minScore)

\* mutation of FilterByMinScore: the threshold test left out
FilterByMinScore_NoThreshold(scored) == scored

\* .filter(s => s.score >= MIN_IAP_SCORE)
FilterByMinScore(scored) == SelectByScore(scored, MIN_IAP_SCORE)

\* mutation of SortByScore: the sort left out
SortByScore_Unsorted(scored) == scored

\* .sort((a, b) => b.score - a.score)
SortByScore(scored) ==
    LET keyed == SortByKey([i \in 1..Len(scored) |->
                               [item |-> scored[i], key |-> -scored[i].score]])
    IN [i \in 1..Len(keyed) |-> keyed[i].item]

\* mutation of RelevantSectionOf: the first section taken whatever its type
RelevantSectionOf_First(iap, cardType) == IF Len(iap.sections) > 0 THEN 1 ELSE 0

\* iap.sections.find(s => relevantSectionTypes.includes(s.type)) || iap.sections[0],
\* as the position of the section, 0 when there is none
RelevantSectionOf(iap, cardType) ==
    IF HasRelevantSections(cardType, iap)
    THEN CHOOSE i \in 1..Len(iap.sections) :
             /\ iap.sections[i].type \in RELEVANT_SECTIONS[cardType]
             /\ \A j \in 1..(i - 1) : iap.sections[j].type \notin RELEVANT_SECTIONS[cardType]
    ELSE IF Len(iap.sections) > 0 THEN 1
    ELSE 0

InsightOf(incident, weather, cardType, iap, score) ==
    LET relevantSection == iap.sections[RelevantSectionOf(iap, cardType)]
    IN [iapId |-> iap.id,
        iapName |-> iap.incidentName,
        relevanceScore |-> score,
        tacticalSnippet |-> extractTacticalSnippet(relevantSection, cardType, iap),
        sectionType |-> relevantSection.type,
        reasoning |-> generateReasoning(incident, weather, iap, score, cardType)]

\* the loop over filtered.slice(0, MAX_IAP_INSIGHTS): a record without any
\* section is passed over (continue)
RECURSIVE InsightsOf(_, _, _, _)
InsightsOf(top, incident, weather, cardType) ==
    IF top = <<>> THEN <<>>
    ELSE (IF RelevantSectionOf(Head(top).iap, cardType) = 0 THEN <<>>
          ELSE <<InsightOf(incident, weather, cardType, Head(top).iap, Head(top).score)>>)
         \o InsightsOf(Tail(top), incident, weather, cardType)

findRelevantIAPs(data, incident, weather, cardType, terrain) ==
    IF Len(data) = 0 THEN <<>>
    ELSE LET scored == ScoreAll(data, incident, weather, cardType, terrain)
             filtered == SortByScore(FilterByMinScore(scored))
         IN InsightsOf(Slice(filtered, MAX_IAP_INSIGHTS), incident, weather, cardType)

----------------------------------------------------------------------------
(* Inputs of the IAP matcher *)

NoText == [present |-> FALSE]

TerrainText ==
    [present |-> TRUE, words |-> {"steep", "ridge", "terrain", "s-facing"},
     focusFor |-> {"tactics"}]

PlainText == [present |-> TRUE, words |-> {}, focusFor |-> {"evacuation"}]

NoWeather == [present |-> FALSE]

WeatherOf(wind, humidity) ==
    [present |-> TRUE, hasWind |-> wind >= 0, windSpeedMps |-> wind,
     hasHumidity |-> humidity >= 0, humidityPct |-> humidity]

Section(type, focusFor) == [type |-> type, focusFor |-> focusFor]

SectionLists ==
    { <<>>,
      << Section("ICS-202", {"tactics", "evacuation"}) >>,
      << Section("ICS-205", {}), Section("ICS-204", {"resources"}) >>,
      << Section("ICS-203", {}) >> }

IAPRecord(id, fuel, weather, acres, sections, county, rawText) ==
    [id |-> id, incidentName |-> id,
     location |-> [state |-> "California", county |-> county],
     conditions |-> [fuel |-> fuel, weather |-> weather, acres |-> acres],
     sections |-> sections,
     lessonsFocusFor |-> IF county = "" THEN {} ELSE {"resources"},
     rawText |-> rawText]

\* the records a dataset is made of
IAPCatalogue ==
    { IAPRecord("camp", "brush", WeatherOf(12, 15), 776,
                << Section("ICS-202", {"tactics", "evacuation"}),
                   Section("ICS-204", {"resources"}) >>, "Butte", TerrainText),
      IAPRecord("lnu", "chaparral", WeatherOf(10, 18), 700,
                << Section("ICS-203", {}) >>, "", NoText),
      IAPRecord("grassfire", "grass", WeatherOf(12, 15), 776,
                << Section("ICS-202", {"tactics", "evacuation"}) >>, "", NoText),
      IAPRecord("bare", "brush", WeatherOf(12, 15), 776, <<>>, "", NoText),
      IAPRecord("stub", "", NoWeather, 0, << Section("ICS-205", {}) >>, "", PlainText),
      IAPRecord("far", "brush", WeatherOf(17, 30), 400,
                << Section("ICS-205", {}), Section("ICS-204", {"resources"}) >>,
                "Napa", PlainText) }

\* the records calculateIAPSimilarity is applied to on its own
IAPUniverse ==
    { IAPRecord("any", fuel, weather, acres, sections, county, rawText) :
        fuel \in {"", "brush", "chaparral", "grass"},
        weather \in {NoWeather, WeatherOf(12, 15), WeatherOf(10, -1),
                     WeatherOf(-1, 18), WeatherOf(20, 40), WeatherOf(10, 18)},
        acres \in {0, 776, 830, 7000},
        sections \in SectionLists,
        county \in {"", "Butte"},
        rawText \in {NoText, PlainText, TerrainText} }

IAPIncidents ==
    { [lat |-> 745, lon |-> -2435, fuelProxy |-> "brush", radiusMeters |-> 1000] }

IAPWeathers == { [windSpeedMps |-> 12, humidityPct |-> 15] }

NoTerrain == [present |-> FALSE]

Terrains ==
    { NoTerrain,
      [present |-> TRUE, slope |-> 30, nearbyRidgeline |-> TRUE, aspect |-> "S"],
      [present |-> TRUE, slope |-> 5, nearbyRidgeline |-> FALSE, aspect |-> "flat"] }

----------------------------------------------------------------------------
(* The exported functions of the IAP matcher *)

FindRelevantIAPs(incident, weather, cardType, terrain) ==
    /\ call' = [op |-> "findRelevantIAPs", incident |-> incident, weather |-> weather,
                cardType |-> cardType, terrain |-> terrain]
    /\ ret' = findRelevantIAPs(iapData, incident, weather, cardType, terrain)
    /\ UNCHANGED <<queryData, cachedIndex, iapData, args, build, service>>

CalculateIAPSimilarity(incident, weather, cardType, iap, terrain) ==
    /\ call' = [op |-> "calculateIAPSimilarity", incident |-> incident,
                weather |-> weather, cardType |-> cardType, iap |-> iap,
                terrain |-> terrain]
    /\ ret' = calculateIAPSimilarity(incident, weather, cardType, iap, terrain)
    /\ UNCHANGED <<queryData, cachedIndex, iapData, args, build, service>>

InitIAP ==
    /\ queryData = <<>>
    /\ cachedIndex = NoIndex
    /\ iapData \in SeqsUpTo(IAPCatalogue, MaxIAPs)
    /\ call = NoCall
    /\ ret = <<>>
    /\ args = NoArgs
    /\ build = NoBuild
    /\ service = NoService

NextIAP ==
    \E i \in IAPIncidents, w \in IAPWeathers, c \in CardTypes, t \in Terrains :
        FindRelevantIAPs(i, w, c, t)

SpecIAP == InitIAP /\ [][NextIAP]_vars

\* calculateIAPSimilarity applied on its own, to the one record of a dataset
\* drawn from IAPUniverse
InitScore ==
    /\ queryData = <<>>
    /\ cachedIndex = NoIndex
    /\ iapData \in {<<iap>> : iap \in IAPUniverse}
    /\ call = NoCall
    /\ ret = <<>>
    /\ args = NoArgs
    /\ build = NoBuild
    /\ service = NoService

NextScore ==
    \E i \in IAPIncidents, w \in IAPWeathers, c \in CardTypes, t \in Terrains,
       k \in 1..Len(iapData) :
        CalculateIAPSimilarity(i, w, c, iapData[k], t)

SpecScore == InitScore /\ [][NextScore]_vars

----------------------------------------------------------------------------
(* Properties of the IAP matcher *)

\* the score of record k of the dataset under the arguments of the last call
ScoreOfRecord(k) ==
    calculateIAPSimilarity(call.incident, call.weather, call.cardType,
                           iapData[k], call.terrain)

\* C1: findRelevantIAPs returns at most 3 insights, each with a relevance
\* score of at least 60
C1_AtMostThreeAboveThreshold ==
    call.op = "findRelevantIAPs" =>
        /\ Len(ret) <= 3
        /\ \A i \in 1..Len(ret) : ret[i].relevanceScore >= 60

\* three insights returned from a dataset in which more than three records
\* reach the threshold
C1_Witness ==
    /\ call.op = "findRelevantIAPs"
    /\ Len(ret) = 3
    /\ Cardinality({k \in 1..Len(iapData) : ScoreOfRecord(k) >= 60}) > 3

\* C2: the insights are in non-increasing order of relevance score, and every
\* record that has a section and scores strictly higher than a returned
\* insight is itself returned, ahead of it
C2_SortedBestFirst ==
    call.op = "findRelevantIAPs" =>
        /\ \A i, j \in 1..Len(ret) :
               i < j => ret[i].relevanceScore >= ret[j].relevanceScore
        /\ \A j \in 1..Len(ret) :
               Cardinality({k \in 1..Len(iapData) :
                               /\ Len(iapData[k].sections) > 0
                               /\ ScoreOfRecord(k) > ret[j].relevanceScore})
                   = Cardinality({i \in 1..(j - 1) :
                                     ret[i].relevanceScore > ret[j].relevanceScore})

\* insights with different scores returned from a dataset that holds the
\* better record after the worse one, and a record left out
C2_Witness ==
    /\ call.op = "findRelevantIAPs"
    /\ Len(ret) >= 2
    /\ ret[1].relevanceScore > ret[2].relevanceScore
    /\ \E k, m \in 1..Len(iapData) :
           /\ k < m
           /\ iapData[m].id = ret[1].iapId
           /\ iapData[k].id = ret[2].iapId
    /\ Len(iapData) > Len(ret)

\* C3: calculateIAPSimilarity returns a value in 0..100
C3_ScoreWithinZeroToHundred ==
    call.op = "calculateIAPSimilarity" => (0 <= ret /\ ret <= 100)

\* C4: every insight carries 2 or 3 reasoning strings
C4_TwoOrThreeReasons ==
    call.op = "findRelevantIAPs" =>
        \A i \in 1..Len(ret) :
            2 <= Len(ret[i].reasoning) /\ Len(ret[i].reasoning) <= 3

----------------------------------------------------------------------------
(* Perimeter processor (perimeter-processor module) *)

\* properties.GIS_ACRES === undefined
UndefinedAcres == -1

MaxDurationHours == 8760

\* (contDate - alarmDate) / (1000 * 60 * 60)
calculateDuration(alarmDate, contDate) == contDate - alarmDate

\* new Date(timestamp).toISOString()
timestampToISO(timestamp) == <<"ISO-8601", timestamp>>

\* turf.polygon(coordinates) throws unless every ring has 4 or more positions
\* and ends where it starts
PolygonThrows(rings) ==
    \E r \in 1..Len(rings) :
        \/ Len(rings[r]) < 4
        \/ rings[r][Len(rings[r])] # rings[r][1]

\* whether normalizeGeometry followed by turf.polygon raises: a Polygon that
\* turf.polygon refuses, a MultiPolygon with such a polygon, or a MultiPolygon
\* without polygons (multiCoords[-1] is undefined)
GeometryThrows(geometry) ==
    IF geometry.type = "Polygon"
    THEN PolygonThrows(geometry.coordinates)
    ELSE \/ geometry.coordinates = <<>>
         \/ \E p \in 1..Len(geometry.coordinates) :
                PolygonThrows(geometry.coordinates[p])

\* a quotient of the program, kept as its numerator and denominator
Quotient(num, den) == [num |-> num, den |-> den]

\* twice the area a ring encloses, in squared coordinate units
RingArea2(ring) ==
    Abs(SumSeq([i \in 1..(Len(ring) - 1) |->
                   ring[i][1] * ring[i + 1][2] - ring[i + 1][1] * ring[i][2]]))

\* turf.area of a polygon: the outer ring less the holes
PolygonArea2(rings) ==
    RingArea2(rings[1]) - SumSeq([i \in 1..(Len(rings) - 1) |-> RingArea2(rings[i + 1])])

\* areas.indexOf(Math.max(...areas))
IndexOfMax(areas) ==
    CHOOSE i \in 1..Len(areas) :
        /\ areas[i] = MaxOf(areas)
        /\ \A j \in 1..(i - 1) : areas[j] # areas[i]

\* a Polygon is returned as it is; of a MultiPolygon the polygon of largest
\* area is kept
normalizeGeometry(geometry) ==
    IF geometry.type = "Polygon" THEN geometry
    ELSE LET multiCoords == geometry.coordinates
             areas == [i \in 1..Len(multiCoords) |-> PolygonArea2(multiCoords[i])]
         IN [type |-> "Polygon", coordinates |-> multiCoords[IndexOfMax(areas)]]

\* the length of a ring in units of 10 m
RingLength(ring) ==
    SumSeq([i \in 1..(Len(ring) - 1) |->
               calculateDistance(ring[i][2], ring[i][1], ring[i + 1][2], ring[i + 1][1])])

\* turf.length(polygon, { units: "kilometers" }), in units of 0.1 km: the
\* length of every ring of the polygon
PolygonLength(rings) ==
    SumSeq([i \in 1..Len(rings) |-> RingLength(rings[i])]) \div 10

\* acres * 0.00404686, in units of 0.001 km2
acresToKm2(acres) == (acres * 4047) \div 1000

\* (4 * Math.PI * areaKm2) / (perimeterKm * perimeterKm), with the area in
\* 0.001 km2, the perimeter in 0.1 km and 4 pi taken as 12.57
calculateCompactness(areaKm2, perimeterKm) ==
    IF perimeterKm = 0 THEN Quotient(0, 1)
    ELSE Quotient(1257 * areaKm2, 1000 * perimeterKm * perimeterKm)

\* !FIRE_NAME || !ALARM_DATE || !CONT_DATE || GIS_ACRES === undefined
MissingRequiredField(properties) ==
    \/ properties.FIRE_NAME = <<>>
    \/ properties.ALARM_DATE = 0
    \/ properties.CONT_DATE = 0
    \/ properties.GIS_ACRES = UndefinedAcres

\* mutation of InvalidDuration: the upper bound left out
InvalidDuration_NoUpperBound(durationHours) == durationHours <= 0

\* durationHours <= 0 || durationHours > 8760
InvalidDuration(durationHours) ==
    durationHours <= 0 \/ durationHours > MaxDurationHours

\* properties.IRWINID || `cal_fire_${properties.YEAR_}_${properties.OBJECTID}`
FireIdOf(properties) ==
    IF properties.IRWINID # "" THEN [irwinId |-> properties.IRWINID]
    ELSE [calFireYear |-> properties.YEAR_, objectId |-> properties.OBJECTID]

NullPerimeter == [isNull |-> TRUE]

\* a feature whose "properties" member is null, as GeoJSON allows
NullProperties == [isNull |-> TRUE]

\* an exception inside the try block is caught and null returned; reading
\* properties.FIRE_NAME of null properties is such an exception
processFirePerimeter(feature) ==
    IF feature.properties = NullProperties THEN NullPerimeter
    ELSE IF MissingRequiredField(feature.properties) THEN NullPerimeter
    ELSE LET durationHours == calculateDuration(feature.properties.ALARM_DATE,
                                                feature.properties.CONT_DATE)
         IN IF InvalidDuration(durationHours) THEN NullPerimeter
            ELSE IF GeometryThrows(feature.geometry) THEN NullPerimeter
            ELSE
            LET normalizedGeom == normalizeGeometry(feature.geometry)
                perimeterKm == PolygonLength(normalizedGeom.coordinates)
                areaKm2 == acresToKm2(feature.properties.GIS_ACRES)
                compactness == calculateCompactness(areaKm2, perimeterKm)
            IN   [isNull |-> FALSE,
                  fireId |-> FireIdOf(feature.properties),
                  fireName |-> feature.properties.FIRE_NAME,
                  geometry |-> normalizedGeom,
                  temporal |-> [alarmDate |-> timestampToISO(feature.properties.ALARM_DATE),
                                containmentDate |-> timestampToISO(feature.properties.CONT_DATE),
                                durationHours |-> durationHours],
                  metrics |-> [totalAcres |-> feature.properties.GIS_ACRES,
                               perimeterKm |-> perimeterKm,
                               compactness |-> compactness],
                  growthRate |-> [acresPerHour |-> feature.properties.GIS_ACRES \div durationHours]]

\* the test processAllPerimeters makes on a feature whose result was null
CountedAsSkipped(properties) ==
    \/ properties.FIRE_NAME = <<>>
    \/ properties.ALARM_DATE = 0
    \/ properties.CONT_DATE = 0

\* one iteration of the loop over features; reading
\* feature.properties.FIRE_NAME of null properties raises a TypeError outside
\* any try block, which ends the loop and the call
ProcessOne(acc, feature) ==
    LET result == processFirePerimeter(feature)
    IN IF acc.raised THEN acc
       ELSE IF ~result.isNull
       THEN [acc EXCEPT !.processed = Append(@, result)]
       ELSE IF feature.properties = NullProperties
       THEN [acc EXCEPT !.raised = TRUE]
       ELSE IF CountedAsSkipped(feature.properties)
       THEN [acc EXCEPT !.skipped = @ + 1]
       ELSE [acc EXCEPT !.failed = @ + 1]

RECURSIVE ProcessLoop(_, _)
ProcessLoop(acc, features) ==
    IF features = <<>> THEN acc
    ELSE ProcessLoop(ProcessOne(acc, Head(features)), Tail(features))

\* the outcome of a call that ended with an uncaught exception
Raised == [raised |-> TRUE]

processAllPerimeters(features) ==
    LET acc == ProcessLoop([processed |-> <<>>, failed |-> 0, skipped |-> 0,
                            raised |-> FALSE], features)
    IN IF acc.raised THEN Raised
       ELSE [raised |-> FALSE,
             processed |-> acc.processed,
             stats |-> [total |-> Len(features),
                        successful |-> Len(acc.processed),
                        failed |-> acc.failed,
                        skipped |-> acc.skipped]]

----------------------------------------------------------------------------
(* Inputs of the perimeter processor: raw features of query.json *)

RawFeature(objectId, name, alarmDate, contDate, acres, geometry) ==
    [id |-> objectId,
     properties |-> [OBJECTID |-> objectId, IRWINID |-> "", INC_NUM |-> "",
                     YEAR_ |-> 2020, FIRE_NAME |-> name, ALARM_DATE |-> alarmDate,
                     CONT_DATE |-> contDate, GIS_ACRES |-> acres],
     geometry |-> geometry]

SquarePolygon ==
    [type |-> "Polygon", coordinates |-> << BoxRing(742, 746, -2438, -2434) >>]

OpenPolygon ==
    [type |-> "Polygon",
     coordinates |-> << << <<-2438, 742>>, <<-2434, 742>>, <<-2434, 746>> >> >>]

\* a MultiPolygon of two boxes of 5.56 km by 4.44 km (6,100 acres each)
TwoPartGeometry ==
    [type |-> "MultiPolygon",
     coordinates |-> << << BoxRing(742, 743, -2438, -2437) >>,
                        << BoxRing(750, 751, -2438, -2437) >> >>]

FireName == <<"C", "a", "m", "p">>

RawCatalogue ==
    { RawFeature("1", FireName, 10, 34, 1000, SquarePolygon),
      RawFeature("2", FireName, 10, 8770, 5, BoxGeometry(742, 746, -2438, -2434)),
      RawFeature("3", FireName, 10, 8771, 5, SquarePolygon),
      RawFeature("4", FireName, 10, 10, 5, SquarePolygon),
      RawFeature("5", FireName, 10, 5, 5, SquarePolygon),
      RawFeature("6", <<>>, 10, 34, 5, SquarePolygon),
      RawFeature("7", FireName, 0, 34, 5, SquarePolygon),
      RawFeature("8", FireName, 10, 0, 5, SquarePolygon),
      RawFeature("9", FireName, 10, 34, UndefinedAcres, SquarePolygon),
      RawFeature("10", FireName, 10, 34, 5, OpenPolygon),
      RawFeature("11", FireName, 10, 34, 0, NoGeometry),
      RawFeature("13", FireName, 10, 34, 12200, TwoPartGeometry),
      RawFeature("14", FireName, 10, 34, 0, SquarePolygon),
      [id |-> "12", properties |-> NullProperties, geometry |-> SquarePolygon] }

----------------------------------------------------------------------------
(* The exported functions of the perimeter processor, applied to the       *)
(* features of query.json as the preprocessing script applies them         *)

ProcessFirePerimeter(k) ==
    /\ call' = [op |-> "processFirePerimeter", feature |-> queryData[k]]
    /\ ret' = processFirePerimeter(queryData[k])
    /\ UNCHANGED <<queryData, cachedIndex, iapData, args, build, service>>

ProcessAllPerimeters ==
    /\ call' = [op |-> "processAllPerimeters", features |-> queryData]
    /\ ret' = processAllPerimeters(queryData)
    /\ UNCHANGED <<queryData, cachedIndex, iapData, args, build, service>>

InitPerimeter ==
    /\ queryData \in SeqsUpTo(RawCatalogue, MaxRecords)
    /\ cachedIndex = NoIndex
    /\ iapData = <<>>
    /\ call = NoCall
    /\ ret = <<>>
    /\ args = NoArgs
    /\ build = NoBuild
    /\ service = NoService

NextPerimeter ==
    \/ \E k \in 1..Len(queryData) : ProcessFirePerimeter(k)
    \/ ProcessAllPerimeters

SpecPerimeter == InitPerimeter /\ [][NextPerimeter]_vars

----------------------------------------------------------------------------
(* Properties of the perimeter processor *)

DurationOf(feature) == feature.properties.CONT_DATE - feature.properties.ALARM_DATE

DurationOutOfRange(feature) ==
    /\ feature.properties # NullProperties
    /\ (DurationOf(feature) <= 0 \/ DurationOf(feature) > 8760)

\* the records a call produced: the result of processFirePerimeter, if any,
\* or the list processAllPerimeters returned
ProducedPerimeters ==
    IF call.op = "processFirePerimeter"
    THEN (IF ret.isNull THEN <<>> ELSE <<ret>>)
    ELSE IF call.op = "processAllPerimeters" /\ ~ret.raised THEN ret.processed
    ELSE <<>>

InputFeatures ==
    IF call.op = "processFirePerimeter" THEN <<call.feature>>
    ELSE IF call.op = "processAllPerimeters" THEN call.features
    ELSE <<>>

\* C9: every ProcessedPerimeter has 0 < durationHours <= 8760, and a raw
\* record whose containment minus ignition time is outside that range
\* yields no output record
C9_DurationWithinOneYear ==
    /\ \A i \in 1..Len(ProducedPerimeters) :
           /\ ProducedPerimeters[i].temporal.durationHours > 0
           /\ ProducedPerimeters[i].temporal.durationHours <= 8760
    /\ \A k \in 1..Len(InputFeatures) :
           DurationOutOfRange(InputFeatures[k]) =>
               \A i \in 1..Len(ProducedPerimeters) :
                   ProducedPerimeters[i].fireId # FireIdOf(InputFeatures[k].properties)

\* a batch that produced a record of exactly 8760 hours and rejected records
\* of 8761 hours and of 0 hours
C9_Witness ==
    /\ call.op = "processAllPerimeters"
    /\ ~ret.raised
    /\ \E i \in 1..Len(ret.processed) : ret.processed[i].temporal.durationHours = 8760
    /\ \E k \in 1..Len(call.features) :
           DurationOutOfRange(call.features[k]) /\ DurationOf(call.features[k]) = 8761
    /\ \E k \in 1..Len(call.features) :
           DurationOutOfRange(call.features[k]) /\ DurationOf(call.features[k]) = 0

\* the records rejected for an absent field or a duration out of range
RejectedAsInput(features) ==
    {k \in 1..Len(features) :
        \/ features[k].properties = NullProperties
        \/ features[k].properties.FIRE_NAME = <<>>
        \/ features[k].properties.ALARM_DATE = 0
        \/ features[k].properties.CONT_DATE = 0
        \/ features[k].properties.GIS_ACRES = UndefinedAcres
        \/ DurationOutOfRange(features[k])}

\* C10: processAllPerimeters counts in stats.skipped the records rejected for
\* an absent name, ignition time, containment time or acreage or for a
\* duration out of range, and in stats.failed only the records whose
\* geometric computation raised an exception
C10_RejectedCountedAsSkipped ==
    (call.op = "processAllPerimeters" /\ ~ret.raised) =>
        /\ ret.stats.skipped = Cardinality(RejectedAsInput(call.features))
        /\ ret.stats.failed =
               Cardinality({k \in 1..Len(call.features) :
                               /\ k \notin RejectedAsInput(call.features)
                               /\ GeometryThrows(call.features[k].geometry)})

\* the number of records of features for which processFirePerimeter returns
\* a ProcessedPerimeter
Survivors(features) ==
    Cardinality({k \in 1..Len(features) : ~processFirePerimeter(features[k]).isNull})

\* C11: processAllPerimeters returns normally for every input collection,
\* every record that can be processed is in the output, and
\* successful + skipped + failed = total = the number of input records, with
\* successful = the number of records in processed
C11_BatchNeverRaises ==
    call.op = "processAllPerimeters" =>
        /\ ~ret.raised
        /\ Len(ret.processed) = Survivors(call.features)
        /\ ret.stats.successful = Len(ret.processed)
        /\ ret.stats.total = Len(call.features)
        /\ ret.stats.successful + ret.stats.skipped + ret.stats.failed
               = ret.stats.total

----------------------------------------------------------------------------
(* Perimeter processor: calculateAspectRatio.  Extents are whole numbers of *)
(* 10 m; a quotient of the program is the pair of its numerator and        *)
(* denominator.                                                            *)

DirectionNames == <<"N", "E", "S", "W", "NE", "SE", "SW", "NW">>

\* [N, E, S, W, NE, SE, SW, NW].filter((e) => e > 0)
PositiveExtents(directionalExtent) ==
    LET listed == [i \in 1..Len(DirectionNames) |-> directionalExtent[DirectionNames[i]]]
    IN SelectSeq(listed, LAMBDA e : e > 0)

\* mutation of AspectQuotient: the smallest extent over the largest
AspectQuotient_Inverted(maxExtent, minExtent) ==
    IF minExtent > 0 THEN Quotient(minExtent, maxExtent) ELSE Quotient(maxExtent, 1)

\* minExtent > 0 ? maxExtent / minExtent : maxExtent
AspectQuotient(maxExtent, minExtent) ==
    IF minExtent > 0 THEN Quotient(maxExtent, minExtent) ELSE Quotient(maxExtent, 1)

calculateAspectRatio(directionalExtent) ==
    LET extents == PositiveExtents(directionalExtent)
    IN IF Len(extents) = 0 THEN Quotient(1, 1)
       ELSE AspectQuotient(MaxOf(extents), MinOf(extents))

\* the maps of 8 extents of 0..MaxExtent
ExtentMaps ==
    [{"N", "E", "S", "W", "NE", "SE", "SW", "NW"} -> 0..MaxExtent]

CalculateAspectRatio ==
    /\ call' = [op |-> "calculateAspectRatio", directionalExtent |-> args]
    /\ ret' = calculateAspectRatio(args)
    /\ UNCHANGED <<queryData, cachedIndex, iapData, args, build, service>>

InitAspectRatio ==
    /\ queryData = <<>>
    /\ cachedIndex = NoIndex
    /\ iapData = <<>>
    /\ call = NoCall
    /\ ret = <<>>
    /\ args \in ExtentMaps
    /\ build = NoBuild
    /\ service = NoService

NextAspectRatio == CalculateAspectRatio

SpecAspectRatio == InitAspectRatio /\ [][NextAspectRatio]_vars

\* the extents of the map that are not zero
NonZeroExtents(directionalExtent) ==
    {directionalExtent[d] : d \in DOMAIN directionalExtent} \ {0}

\* C12: calculateAspectRatio returns a value >= 1: the largest non-zero
\* extent divided by the smallest non-zero extent, and exactly 1 when no
\* extent is non-zero
C12_AspectRatioAtLeastOne ==
    call.op = "calculateAspectRatio" =>
        /\ ret.den > 0
        /\ ret.num >= ret.den
        /\ IF NonZeroExtents(call.directionalExtent) = {}
           THEN ret.num = ret.den
           ELSE \E hi, lo \in NonZeroExtents(call.directionalExtent) :
                    /\ \A e \in NonZeroExtents(call.directionalExtent) : lo <= e /\ e <= hi
                    /\ ret.num * lo = hi * ret.den

\* a map with zero extents and two different non-zero extents, whose ratio is
\* 2, and the extents listed smallest first
C12_Witness ==
    /\ call.op = "calculateAspectRatio"
    /\ call.directionalExtent.N = 1
    /\ call.directionalExtent.E = 0
    /\ call.directionalExtent.NW = 2
    /\ ret.num = 2 * ret.den

----------------------------------------------------------------------------
(* Properties of the shape metrics of processed perimeters *)

\* C13: every ProcessedPerimeter processFirePerimeter produces has
\* metrics.compactness strictly greater than 0 and at most 1
C13_CompactnessWithinUnitInterval ==
    \A i \in 1..Len(ProducedPerimeters) :
        /\ ProducedPerimeters[i].metrics.compactness.num > 0
        /\ ProducedPerimeters[i].metrics.compactness.num
               <= ProducedPerimeters[i].metrics.compactness.den

----------------------------------------------------------------------------
(* terrain.ts: categorizeSlope.  A slope is a whole number of 0.1 %.       *)

SlopeBands == <<"flat", "gentle", "moderate", "steep", "extreme">>

\* mutation of categorizeSlope: the boundary values put into the lower band
categorizeSlope_Inclusive(slopePercent) ==
    IF slopePercent <= 50 THEN "flat"
    ELSE IF slopePercent <= 150 THEN "gentle"
    ELSE IF slopePercent <= 300 THEN "moderate"
    ELSE IF slopePercent <= 500 THEN "steep"
    ELSE "extreme"

categorizeSlope(slopePercent) ==
    IF slopePercent < 50 THEN "flat"
    ELSE IF slopePercent < 150 THEN "gentle"
    ELSE IF slopePercent < 300 THEN "moderate"
    ELSE IF slopePercent < 500 THEN "steep"
    ELSE "extreme"

\* categorizeSlope applied to a slope and to the next larger one
CategorizeSlope ==
    /\ call' = [op |-> "categorizeSlope", slopePercent |-> args.slopePercent]
    /\ ret' = [band |-> categorizeSlope(args.slopePercent),
               bandAbove |-> categorizeSlope(args.slopePercent + 1)]
    /\ UNCHANGED <<queryData, cachedIndex, iapData, args, build, service>>

InitSlope ==
    /\ queryData = <<>>
    /\ cachedIndex = NoIndex
    /\ iapData = <<>>
    /\ call = NoCall
    /\ ret = <<>>
    /\ args \in [slopePercent : 0..MaxSlope]
    /\ build = NoBuild
    /\ service = NoService

NextSlope == CategorizeSlope

SpecSlope == InitSlope /\ [][NextSlope]_vars

\* the position of a band in the order flat < gentle < moderate < steep < extreme
BandRank(band) == CHOOSE i \in 1..Len(SlopeBands) : SlopeBands[i] = band

\* C14: categorizeSlope maps a non-negative slope s to flat iff s < 5, gentle
\* iff 5 <= s < 15, moderate iff 15 <= s < 30, steep iff 30 <= s < 50,
\* extreme iff s >= 50, and a larger slope never gets a lower band
C14_SlopeBandsPartition ==
    call.op = "categorizeSlope" =>
        LET s == call.slopePercent
        IN /\ (ret.band = "flat") <=> (s < 50)
           /\ (ret.band = "gentle") <=> (50 <= s /\ s < 150)
           /\ (ret.band = "moderate") <=> (150 <= s /\ s < 300)
           /\ (ret.band = "steep") <=> (300 <= s /\ s < 500)
           /\ (ret.band = "extreme") <=> (s >= 500)
           /\ \E i \in 1..Len(SlopeBands) : SlopeBands[i] = ret.band
           /\ BandRank(ret.band) <= BandRank(ret.bandAbove)

\* the slope of exactly 50 %, the first of the highest band
C14_Witness ==
    /\ call.op = "categorizeSlope"
    /\ call.slopePercent = 500
    /\ ret.band = "extreme"

----------------------------------------------------------------------------
(* terrain.ts: calculateAspect and degreesToCardinal.  Elevations and the  *)
(* cell size are whole metres; angles are whole degrees.                   *)

\* 10000 * tan(d degrees) for d = 1..89
TanTable ==
    << 175, 349, 524, 699, 875, 1051, 1228, 1405, 1584, 1763,
       1944, 2126, 2309, 2493, 2679, 2867, 3057, 3249, 3443, 3640,
       3839, 4040, 4245, 4452, 4663, 4877, 5095, 5317, 5543, 5774,
       6009, 6249, 6494, 6745, 7002, 7265, 7536, 7813, 8098, 8391,
       8693, 9004, 9325, 9657, 10000, 10355, 10724, 11106, 11504, 11918,
       12349, 12799, 13270, 13764, 14281, 14826, 15399, 16003, 16643, 17321,
       18040, 18807, 19626, 20503, 21445, 22460, 23559, 24751, 26051, 27475,
       29042, 30777, 32709, 34874, 37321, 40108, 43315, 47046, 51446, 56713,
       63138, 71154, 81443, 95144, 114301, 143007, 190811, 286363, 572900 >>

\* Math.atan2(y, x) * 180 / Math.PI for x > 0 and y >= 0, in whole degrees
AtanDeg(y, x) ==
    LET below == {d \in 1..89 : TanTable[d] * x <= 10000 * y}
    IN IF below = {} THEN 0 ELSE CHOOSE d \in below : \A e \in below : e <= d

\* Math.atan2(y, x) * 180 / Math.PI, a value of -180..180
Atan2Deg(y, x) ==
    IF y = 0 /\ x = 0 THEN 0
    ELSE IF y >= 0
    THEN (IF x > 0 THEN AtanDeg(y, x)
          ELSE IF x = 0 THEN 90
          ELSE 180 - AtanDeg(y, -x))
    ELSE (IF x > 0 THEN -AtanDeg(-y, x)
          ELSE IF x = 0 THEN -90
          ELSE AtanDeg(-y, -x) - 180)

\* the % operator of JavaScript: the result has the sign of the dividend
JsRemainder(a, n) == IF a >= 0 THEN a % n ELSE -((-a) % n)

\* directions[index] of an index outside the array
Undefined == "undefined"

CardinalDirections == <<"N", "NE", "E", "SE", "S", "SW", "W", "NW">>

\* Math.round(degrees / 45) % 8, then directions[index]
degreesToCardinal(degrees) ==
    LET index == JsRemainder((2 * degrees + 45) \div 90, 8)
    IN IF index >= 0 THEN CardinalDirections[index + 1] ELSE Undefined

\* mutation of NormalizeAspect: the turn of 360 degrees left out
NormalizeAspect_NoTurn(aspectDeg) == JsRemainder(90 - aspectDeg, 360)

\* (90 - aspectDeg + 360) % 360
NormalizeAspect(aspectDeg) == JsRemainder(90 - aspectDeg + 360, 360)

\* Math.sqrt(dz_dx * dz_dx + dz_dy * dz_dy) < 0.01 with
\* dz_dx = (eastElev - westElev) / (2 * cellSize) and
\* dz_dy = (northElev - southElev) / (2 * cellSize)
BelowFlatThreshold(northElev, southElev, eastElev, westElev, cellSize) ==
    2500 * ((eastElev - westElev) * (eastElev - westElev)
            + (northElev - southElev) * (northElev - southElev))
        < cellSize * cellSize

calculateAspect(centerElev, northElev, southElev, eastElev, westElev, cellSize) ==
    LET aspectDeg ==
            NormalizeAspect(Atan2Deg(northElev - southElev, -(eastElev - westElev)))
    IN IF BelowFlatThreshold(northElev, southElev, eastElev, westElev, cellSize)
       THEN [degrees |-> 0, direction |-> "flat"]
       ELSE [degrees |-> aspectDeg, direction |-> degreesToCardinal(aspectDeg)]

\* elevation samples around two centres, 30 m and 100 m apart
ElevationSamples ==
    [centerElev : {0, 500}, northElev : 100..(100 + MaxRelief),
     southElev : 100..(100 + MaxRelief), eastElev : 100..(100 + MaxRelief),
     westElev : 100..(100 + MaxRelief), cellSize : {30, 100}]

CalculateAspect ==
    /\ call' = [op |-> "calculateAspect", sample |-> args]
    /\ ret' = calculateAspect(args.centerElev, args.northElev, args.southElev,
                              args.eastElev, args.westElev, args.cellSize)
    /\ UNCHANGED <<queryData, cachedIndex, iapData, args, build, service>>

InitAspect ==
    /\ queryData = <<>>
    /\ cachedIndex = NoIndex
    /\ iapData = <<>>
    /\ call = NoCall
    /\ ret = <<>>
    /\ args \in ElevationSamples
    /\ build = NoBuild
    /\ service = NoService

NextAspect == CalculateAspect

SpecAspect == InitAspect /\ [][NextAspect]_vars

\* whether the gradient magnitude of a sample is below 0.01: the squared
\* magnitude ((E - W)^2 + (N - S)^2) / (2 c)^2 is below 0.0001
GradientBelowThreshold(sample) ==
    10000 * ((sample.eastElev - sample.westElev) * (sample.eastElev - sample.westElev)
             + (sample.northElev - sample.southElev) * (sample.northElev - sample.southElev))
        < 4 * sample.cellSize * sample.cellSize

\* C15: calculateAspect returns direction 'flat' with degrees 0 whenever the
\* gradient magnitude is below 0.01, whatever the centre elevation, and one
\* of the 8 cardinal labels with degrees in [0, 360) otherwise
C15_FlatBelowGradientThreshold ==
    call.op = "calculateAspect" =>
        IF GradientBelowThreshold(call.sample)
        THEN ret.direction = "flat" /\ ret.degrees = 0
        ELSE /\ \E i \in 1..Len(CardinalDirections) : CardinalDirections[i] = ret.direction
             /\ 0 <= ret.degrees
             /\ ret.degrees < 360

\* a sample whose gradient towards the east is exactly the threshold 0.01:
\* not flat, with an aspect of 296 degrees
C15_Witness ==
    /\ call.op = "calculateAspect"
    /\ call.sample.cellSize = 100
    /\ call.sample.eastElev - call.sample.westElev = 2
    /\ call.sample.northElev - call.sample.southElev = 1
    /\ ret.direction = "NW"
    /\ ret.degrees = 296

----------------------------------------------------------------------------
(* directional-spread.ts: buildSpreadIndex step by step.  A query enters   *)
(* buildSpreadIndex(); when cachedIndex is null the loop over the features *)
(* runs one feature per step on maps local to the call, and the assignment *)
(* to cachedIndex follows the loop.  The functions are synchronous, so no  *)
(* other call starts before the running one has returned.                  *)

\* the queries followed through the build
BuildQueries ==
    { [op |-> "findFiresNearLocation", lat |-> 745, lon |-> -2435,
       radiusKm |-> 100, limit |-> 2],
      [op |-> "findFiresByName", name |-> <<"c", "a", "m", "p">>, limit |-> 2],
      [op |-> "findSimilarFires",
       incident |-> [lat |-> 745, lon |-> -2435, fuelProxy |-> "brush",
                     radiusMeters |-> 1000],
       radiusKm |-> 100, limit |-> 2],
      [op |-> "predictSpreadPattern",
       incident |-> [lat |-> 740, lon |-> -2440, fuelProxy |-> "brush",
                     radiusMeters |-> 1000],
       windDirDeg |-> 0] }

\* what the query c returns once buildSpreadIndex() has returned index
ResultOf(index, c) ==
    CASE c.op = "findFiresNearLocation" ->
             findFiresNearLocation(index, c.lat, c.lon, c.radiusKm, c.limit)
      [] c.op = "findFiresByName" -> findFiresByName(index, c.name, c.limit)
      [] c.op = "findSimilarFires" ->
             findSimilarFires(index, c.incident, c.radiusKm, c.limit)
      [] c.op = "predictSpreadPattern" ->
             predictSpreadPattern(index, c.incident, c.windDirDeg)

\* mutation of CacheHit: the cached index never reused
CacheHit_Never == FALSE

\* if (cachedIndex)
CacheHit == cachedIndex.present

\* mutation of PublishedIndex: the maps assigned to cachedIndex before the loop
PublishedIndex_Early(local, done) == local

\* the value of cachedIndex while buildSpreadIndex() runs: it is assigned
\* once, after the loop
PublishedIndex(local, done) == IF done THEN local ELSE cachedIndex

\* if (cachedIndex) return cachedIndex; then the rest of the query
QueryWithIndex(c) ==
    /\ build.pc = "idle"
    /\ CacheHit
    /\ call' = c
    /\ ret' = ResultOf(cachedIndex, c)
    /\ cachedIndex' = IndexAfterQuery(cachedIndex, c.op)
    /\ UNCHANGED <<queryData, iapData, args, build, service>>

\* the four empty structures are created
StartBuild(c) ==
    /\ build.pc = "idle"
    /\ ~CacheHit
    /\ build.count < MaxBuilds
    /\ build' = [pc |-> "loop", count |-> build.count, local |-> EmptyIndex,
                 next |-> 1, pending |-> c]
    /\ cachedIndex' = PublishedIndex(EmptyIndex, FALSE)
    /\ UNCHANGED <<queryData, iapData, call, ret, args, service>>

\* one iteration of the loop over data.features
IndexNextFeature ==
    /\ build.pc = "loop"
    /\ build.next <= Len(queryData)
    /\ build' = [build EXCEPT !.local = IndexFeature(@, queryData[build.next]),
                              !.next = @ + 1]
    /\ cachedIndex' = PublishedIndex(build'.local, FALSE)
    /\ UNCHANGED <<queryData, iapData, call, ret, args, service>>

\* cachedIndex = { byName, byLocation, byYear, all }; return cachedIndex;
\* then the rest of the query
FinishBuild ==
    /\ build.pc = "loop"
    /\ build.next > Len(queryData)
    /\ cachedIndex' = IndexAfterQuery(PublishedIndex(build.local, TRUE),
                                      build.pending.op)
    /\ build' = [pc |-> "idle", count |-> build.count + 1]
    /\ call' = build.pending
    /\ ret' = ResultOf(build.local, build.pending)
    /\ UNCHANGED <<queryData, iapData, args, service>>

NextBuild ==
    \/ \E c \in BuildQueries : QueryWithIndex(c)
    \/ \E c \in BuildQueries : StartBuild(c)
    \/ IndexNextFeature
    \/ FinishBuild
    \/ ClearSpreadCache

SpecBuild == Init /\ [][NextBuild]_vars

----------------------------------------------------------------------------
(* Properties of the cached spread index *)

Occurrences(s, x) == Cardinality({i \in 1..Len(s) : s[i] = x})

\* how often x is held by the buckets of a secondary index
BucketOccurrences(map, x) ==
    SumSeq([i \in 1..Len(map) |-> Occurrences(map[i].val, x)])

\* every fire held by a bucket of the secondary index is an entry of all
EntriesWithin(map, all) ==
    \A i \in 1..Len(map) : \A j \in 1..Len(map[i].val) :
        \E k \in 1..Len(all) : all[k] = map[i].val[j]

\* every entry of a secondary index is an entry of all, and each secondary
\* index holds exactly the entries of all
ConsistentIndex(index) ==
    /\ EntriesWithin(index.byName, index.all)
    /\ EntriesWithin(index.byLocation, index.all)
    /\ EntriesWithin(index.byYear, index.all)
    /\ \A k \in 1..Len(index.all) :
           /\ BucketOccurrences(index.byName, index.all[k])
                  = Occurrences(index.all, index.all[k])
           /\ BucketOccurrences(index.byLocation, index.all[k])
                  = Occurrences(index.all, index.all[k])
           /\ BucketOccurrences(index.byYear, index.all[k])
                  = Occurrences(index.all, index.all[k])

\* C16: the cached spread index is either absent or consistent (every entry
\* of byName, byLocation and byYear is an entry of all, the four structures
\* holding the entries of one build), and a step never replaces a present
\* index by a different one: the four structures appear together and
\* disappear together
C16_IndexAbsentOrConsistent ==
    /\ [](cachedIndex.present => ConsistentIndex(cachedIndex))
    /\ [][(cachedIndex.present /\ cachedIndex'.present) => cachedIndex' = cachedIndex]_vars

\* an index in use whose flat collection holds two fires of one name bucket
C16_Witness ==
    /\ cachedIndex.present
    /\ build.pc = "idle"
    /\ call.op = "findFiresByName"
    /\ Len(cachedIndex.all) >= 2
    /\ \E i \in 1..Len(cachedIndex.byName) : Len(cachedIndex.byName[i].val) >= 2
    /\ Len(cachedIndex.byYear) >= 2

\* C17: no query reads an index that holds only part of the dataset: the
\* index visible in cachedIndex, at every step of a build as well, holds
\* every feature of the dataset, and a query returns what it returns on the
\* index of the whole dataset
C17_NoPartialIndexVisible ==
    /\ cachedIndex.present => cachedIndex = IndexFeatures(EmptyIndex, queryData)
    /\ (call.op \in {c.op : c \in BuildQueries}) =>
           ret = ResultOf(IndexFeatures(EmptyIndex, queryData), call)

\* a build that has inserted some but not all of the features, with
\* cachedIndex still null
C17_Witness ==
    /\ build.pc = "loop"
    /\ build.next > 1
    /\ build.next <= Len(queryData)
    /\ Len(build.local.all) >= 1
    /\ ~cachedIndex.present

\* C18: no build happens before the first query; between two clearSpreadCache
\* calls the dataset is indexed at most once, a query that finds an index
\* uses it without building, and a build happens only when cachedIndex is
\* null, once, for the first query after the clear
C18_LazyBuildOncePerClear ==
    /\ [](/\ build.count <= 1
          /\ (call.op = "none" /\ build.pc = "idle") =>
                 (~cachedIndex.present /\ build.count = 0)
          /\ (build.pc = "idle") => (cachedIndex.present <=> build.count = 1)
          /\ (build.pc = "loop") => build.count = 0)
    /\ [][/\ (build'.count # build.count) =>
                 \/ (build.pc = "loop" /\ ~cachedIndex.present /\ build'.count = 1)
                 \/ (call'.op = "clearSpreadCache" /\ build'.count = 0)
          /\ (cachedIndex.present /\ call'.op # "clearSpreadCache") =>
                 (cachedIndex' = cachedIndex /\ build' = build)]_vars

\* the first query after a clearSpreadCache has rebuilt the index once
C18_Witness ==
    /\ call.op = "predictSpreadPattern"
    /\ build = [pc |-> "idle", count |-> 1]
    /\ cachedIndex.present
    /\ Len(cachedIndex.all) >= 2

----------------------------------------------------------------------------
(* terrain.ts: getTerrainMetrics.  Latitudes and longitudes are in tenths  *)
(* of a degree, slopes in 0.1 %, the ridgeline distance in 0.1 km.  The    *)
(* values drawn from Math.random() are chosen among the outcomes below.    *)

\* 10 + Math.random() * 20
RandomSlopes == {100, 149, 150, 200, 201, 299}

\* 0.5 + Math.random() * 1.5
RandomRidgeDists == {5, 19}

\* Math.random() * 360
RandomRidgeBearings == {0, 200}

\* 200 + Math.abs(lat - 37) * 100
MockElevation(lat) == 200 + (IF lat >= 370 THEN lat - 370 ELSE 370 - lat) * 10

\* (lon * 10) % 360
MockAspectDeg(lon) == JsRemainder(lon, 360)

generateTerrainNotes(metrics) ==
    (IF metrics.slope > 300
     THEN <<[note |-> "steep terrain"]>>
     ELSE IF metrics.slope > 150
     THEN <<[note |-> "moderate slopes"]>>
     ELSE <<>>)
    \o (IF metrics.aspect \in {"S", "SW", "SE"}
        THEN <<[note |-> "sun exposure", aspect |-> metrics.aspect]>>
        ELSE <<>>)
    \o (IF metrics.nearbyRidgeline /\ metrics.ridgelineDistKm # 0
        THEN <<[note |-> "ridgeline", distKm |-> metrics.ridgelineDistKm,
                direction |-> metrics.ridgelineDirection]>>
        ELSE <<>>)

\* the metrics returned for a location; mockSlope, ridgeDraw (Math.random()
\* > 0.6), ridgeDist and ridgeBearing are the values drawn at random.  An
\* undefined ridgelineDistKm is 0, which is falsy as undefined is
getTerrainMetrics(lat, lon, mockSlope, ridgeDraw, ridgeDist, ridgeBearing) ==
    LET mockElevation == MockElevation(lat)
        mockAspectDeg == MockAspectDeg(lon)
        mockAspect == degreesToCardinal(mockAspectDeg)
        mockNearbyRidge == mockSlope > 200 /\ ridgeDraw
        mockRidgeDist == IF mockNearbyRidge THEN ridgeDist ELSE 0
        mockRidgeDir == IF mockNearbyRidge THEN degreesToCardinal(ridgeBearing)
                        ELSE Undefined
        metrics == [elevation |-> mockElevation,
                    slope |-> mockSlope,
                    slopeAngle |-> AtanDeg(mockSlope, 1000),
                    aspect |-> mockAspect,
                    aspectDegrees |-> mockAspectDeg,
                    nearbyRidgeline |-> mockNearbyRidge,
                    ridgelineDistKm |-> mockRidgeDist,
                    ridgelineDirection |-> mockRidgeDir,
                    terrainType |-> categorizeSlope(mockSlope)]
    IN [elevation |-> metrics.elevation,
        slope |-> metrics.slope,
        slopeAngle |-> metrics.slopeAngle,
        aspect |-> metrics.aspect,
        aspectDegrees |-> metrics.aspectDegrees,
        nearbyRidgeline |-> metrics.nearbyRidgeline,
        ridgelineDistKm |-> metrics.ridgelineDistKm,
        ridgelineDirection |-> metrics.ridgelineDirection,
        terrainType |-> metrics.terrainType,
        notes |-> generateTerrainNotes(metrics)]

\* the locations asked for: northern California, the prime meridian and
\* eastern longitudes
TerrainLatitudes == {325, 370, 420}

TerrainLongitudes == (-1245 .. -1205) \cup {-2, 0, 450, 1215, 3600}

GetTerrainMetrics ==
    /\ call.op = "none"
    /\ \E mockSlope \in RandomSlopes, ridgeDraw \in BOOLEAN,
          ridgeDist \in RandomRidgeDists, ridgeBearing \in RandomRidgeBearings :
          /\ call' = [op |-> "getTerrainMetrics"]
          /\ ret' = getTerrainMetrics(args.lat, args.lon, mockSlope, ridgeDraw,
                                      ridgeDist, ridgeBearing)
    /\ UNCHANGED <<queryData, cachedIndex, iapData, args, build, service>>

InitTerrain ==
    /\ queryData = <<>>
    /\ cachedIndex = NoIndex
    /\ iapData = <<>>
    /\ call = NoCall
    /\ ret = <<>>
    /\ args \in [lat : TerrainLatitudes, lon : TerrainLongitudes]
    /\ build = NoBuild
    /\ service = NoService

NextTerrain == GetTerrainMetrics

SpecTerrain == InitTerrain /\ [][NextTerrain]_vars

\* C19: for every location, negative longitudes included, the metrics
\* returned by getTerrainMetrics have an aspect among N, NE, E, SE, S, SW, W,
\* NW and flat, aspectDegrees within 0..360 and terrainType equal to
\* categorizeSlope(slope)
C19_TerrainMetricsWellFormed ==
    (call.op = "getTerrainMetrics") =>
        /\ ret.aspect \in {"N", "NE", "E", "SE", "S", "SW", "W", "NW", "flat"}
        /\ ret.aspectDegrees >= 0
        /\ ret.aspectDegrees <= 360
        /\ ret.terrainType = categorizeSlope(ret.slope)

----------------------------------------------------------------------------
(* Properties of the IAP similarity score *)

\* the last call matched a record whose fuel is compatible with but different
\* from the incident's, whose wind speed is within 3 m/s and whose humidity
\* is within 10 points of the current weather, and which has a section
\* relevant to the card type
CloseCompatibleMatch ==
    /\ call.op = "calculateIAPSimilarity"
    /\ call.iap.conditions.fuel # ""
    /\ call.iap.conditions.fuel # call.incident.fuelProxy
    /\ call.incident.fuelProxy \in DOMAIN FUEL_COMPATIBILITY_MAP
    /\ call.iap.conditions.fuel \in FUEL_COMPATIBILITY_MAP[call.incident.fuelProxy]
    /\ call.iap.conditions.weather.present
    /\ call.iap.conditions.weather.hasWind
    /\ Abs(call.weather.windSpeedMps - call.iap.conditions.weather.windSpeedMps) <= 3
    /\ call.iap.conditions.weather.hasHumidity
    /\ Abs(call.weather.humidityPct - call.iap.conditions.weather.humidityPct) <= 10
    /\ \E i \in 1..Len(call.iap.sections) :
           call.iap.sections[i].type \in RELEVANT_SECTIONS[call.cardType]

\* C20: when the record's fuel is compatible with but different from the
\* incident's fuel, the wind speeds differ by at most 3 m/s, the humidities
\* by at most 10 points and the record has a section relevant to the card
\* type, the score is 12 + 15 + 10 + 25 = 62 plus the scale term (of 0 to 15
\* points, and the terrain term where one applies), hence at least 60
C20_CloseCompatibleMatchPasses ==
    CloseCompatibleMatch =>
        /\ ret >= 60
        /\ ret = 62 + ((ScalePointsTimes2(call.incident, call.iap) + 1) \div 2)
                    + TerrainPoints(call.cardType, call.iap, call.terrain)
        /\ ret - TerrainPoints(call.cardType, call.iap, call.terrain) \in 62..77

\* the brush incident at 12 m/s and 15 % matched with a chaparral record at
\* 10 m/s and 18 % of comparable size with an ICS-202 section: 76 points
C20_Witness ==
    /\ CloseCompatibleMatch
    /\ call.incident.fuelProxy = "brush"
    /\ call.weather = [windSpeedMps |-> 12, humidityPct |-> 15]
    /\ call.iap.conditions.fuel = "chaparral"
    /\ call.iap.conditions.weather = WeatherOf(10, 18)
    /\ call.iap.conditions.acres = 830
    /\ call.cardType = "evacuation"
    /\ ret = 76

----------------------------------------------------------------------------
(* directional-spread.ts: the index of features of every shape.  A dataset *)
(* holds one feature whose ring has one or two vertices drawn from a grid  *)
(* of twelve points, so that bounding boxes of zero width, zero height and *)
(* both occur next to boxes that are taller than wide and wider than tall, *)
(* and boxes whose midpoint is a coordinate next to boxes whose midpoint   *)
(* lies halfway between two coordinates.                                   *)

ShapePoints ==
    { <<lon, lat>> : lon \in {-2438, -2434, -2418, -2395}, lat \in {742, 746, 785} }

ShapeRings == UNION { [1..n -> ShapePoints] : n \in 1..2 }

ShapeFeature(ring) ==
    [id |-> "7",
     properties |-> [FIRE_NAME |-> <<"C", "a", "m", "p">>, INC_NUM |-> "CA-7",
                     YEAR_ |-> 2017, ALARM_DATE |-> 100, CONT_DATE |-> 124,
                     GIS_ACRES |-> 900],
     geometry |-> [type |-> "MultiPolygon", coordinates |-> << << ring >> >>]]

InitShape ==
    /\ queryData \in { <<ShapeFeature(ring)>> : ring \in ShapeRings }
    /\ cachedIndex = NoIndex
    /\ iapData = <<>>
    /\ call = NoCall
    /\ ret = <<>>
    /\ args = NoArgs
    /\ build = NoBuild
    /\ service = NoService

SpecShape == InitShape /\ [][NextBuild]_vars

\* C21: every DirectionalSpread stored by the index build has an elongation
\* that is a finite number >= 1 (>= 100 hundredths), for every feature with
\* at least one coordinate, bounding boxes of zero width or zero height
\* included
C21_ElongationFiniteAtLeastOne ==
    cachedIndex.present =>
        \A k \in 1..Len(cachedIndex.all) :
            /\ cachedIndex.all[k].shape.elongation # NaN
            /\ cachedIndex.all[k].shape.elongation # Infinity
            /\ cachedIndex.all[k].shape.elongation >= 100

----------------------------------------------------------------------------
(* Properties of the insights of findRelevantIAPs *)

\* the positions of the records of the dataset that reach the threshold under
\* the arguments of the last call
SurvivingRecords == {k \in 1..Len(iapData) : ScoreOfRecord(k) >= MIN_IAP_SCORE}

\* C22: findRelevantIAPs returns one insight for each of the best-scoring
\* surviving records up to 3: when k records score at least 60 the result has
\* exactly min(3, k) insights, whatever sections the records have
C22_OneInsightPerSurvivor ==
    call.op = "findRelevantIAPs" =>
        Len(ret) = Min(MAX_IAP_INSIGHTS, Cardinality(SurvivingRecords))

----------------------------------------------------------------------------
(* directional-spread.ts: findFiresNearLocation over fires around the      *)
(* query point.  0.5 degrees of longitude are 44 km at this latitude, 0.5   *)
(* degrees of latitude are 56 km.                                           *)

\* a fire whose bounding box is centred on (lat, lon)
NearFeature(lat, lon) ==
    [id |-> "9",
     properties |-> [FIRE_NAME |-> <<"C", "a", "m", "p">>, INC_NUM |-> "CA-9",
                     YEAR_ |-> 2016, ALARM_DATE |-> 100, CONT_DATE |-> 124,
                     GIS_ACRES |-> 900],
     geometry |-> BoxGeometry(lat - 1, lat + 1, lon - 1, lon + 1)]

NearCatalogue ==
    { NearFeature(745, -2451), NearFeature(745, -2441), NearFeature(745, -2439),
      NearFeature(745, -2419), NearFeature(745, -2409), NearFeature(735, -2440) }

NearPoints == { <<745, -2440>>, <<745, -2435>> }

NearLimits == 1..3

InitNear ==
    /\ queryData \in SeqsUpTo(NearCatalogue, 2)
    /\ cachedIndex = NoIndex
    /\ iapData = <<>>
    /\ call = NoCall
    /\ ret = <<>>
    /\ args = NoArgs
    /\ build = NoBuild
    /\ service = NoService

NextNear ==
    \E p \in NearPoints, r \in RadiiKm, l \in NearLimits :
        FindFiresNearLocation(p[1], p[2], r, l)

SpecNear == InitNear /\ [][NextNear]_vars

\* the positions in the dataset's fires of those within radiusKm of the query
\* point of the last call
FiresWithinRadius ==
    {i \in 1..Len(AllFires) :
        DistanceTo(call.lat, call.lon, AllFires[i]) <= call.radiusKm * KmUnits}

----------------------------------------------------------------------------
(* ai/service.ts and cache.ts: generateAIInsights over the TTL cache.  The *)
(* clock counts minutes.  A request runs in two steps: the part of         *)
(* generateAIInsights before `await callClaudeAPI(prompt)`, and the part   *)
(* after the API call has resolved or rejected.                            *)

\* new TTLCache<AIInsight[]>(5 * 60 * 1000)
CacheTtl == 5

\* now - rateLimitWindow > 60000
RateWindow == 1

MAX_REQUESTS_PER_MINUTE == 10

\* filterInsightsByConfidence(insights, 40)
MinConfidence == 40

\* filteredInsights.slice(0, 3)
MaxInsights == 3

\* the values getCacheKey yields for the requests followed
CacheKeys == {"inc-1", "inc-2"}

\* the insights callClaudeAPI resolves with, each named by its confidence
ApiResponses == { <<"high", "medium", "low", "high">>, <<"low">> }

NoEntry == [present |-> FALSE]

\* the service at module load: an empty cache, the window opened at load
\* time; everCached records the keys cache.set was ever called with
ServiceAtLoad(enabled) ==
    [enabled |-> enabled, now |-> 0, cache |-> [k \in CacheKeys |-> NoEntry],
     requestCount |-> 0, rateLimitWindow |-> 0, waiting |-> {},
     everCached |-> {}]

\* TTLCache.get: the value, or null with the expired entry deleted
TTLCacheGet(cache, key, now) ==
    IF ~cache[key].present THEN [hit |-> FALSE, cache |-> cache]
    ELSE IF now - cache[key].timestamp > CacheTtl
    THEN [hit |-> FALSE, cache |-> [cache EXCEPT ![key] = NoEntry]]
    ELSE [hit |-> TRUE, value |-> cache[key].value, cache |-> cache]

\* TTLCache.set
TTLCacheSet(cache, key, value, now) ==
    [cache EXCEPT ![key] = [present |-> TRUE, value |-> value, timestamp |-> now]]

\* TTLCache.clearExpired
TTLCacheClearExpired(cache, now) ==
    [k \in DOMAIN cache |->
        IF cache[k].present /\ now - cache[k].timestamp > CacheTtl
        THEN NoEntry ELSE cache[k]]

checkRateLimit(s) ==
    LET reset == s.now - s.rateLimitWindow > RateWindow
        count == IF reset THEN 0 ELSE s.requestCount
        window == IF reset THEN s.now ELSE s.rateLimitWindow
    IN IF count >= MAX_REQUESTS_PER_MINUTE
       THEN [ok |-> FALSE, requestCount |-> count, rateLimitWindow |-> window]
       ELSE [ok |-> TRUE, requestCount |-> count + 1, rateLimitWindow |-> window]

confScore(confidence) ==
    IF confidence = "high" THEN 100 ELSE IF confidence = "medium" THEN 70 ELSE 40

filterInsightsByConfidence(insights, minConfidence) ==
    LET Kept(confidence) == confScore(confidence) >= minConfidence
    IN SelectSeq(insights, Kept)

\* the catch block: cache.get(cacheKey), the stale value or []
CaughtResult(cache, key, now) ==
    LET staleCache == TTLCacheGet(cache, key, now)
    IN [value |-> IF staleCache.hit THEN staleCache.value ELSE <<>>,
        cache |-> staleCache.cache]

\* generateAIInsights up to the await: the feature flag, the cache, the rate
\* limiter, predictSpreadPattern when the request carries no spread data,
\* buildPrompt (which throws or not)
GenerateAIInsights(key, hasSpread, promptThrows) ==
    /\ key \notin service.waiting
    /\ UNCHANGED <<queryData, iapData, args, build>>
    /\ IF ~service.enabled
       THEN /\ call' = [op |-> "generateAIInsights", key |-> key, caught |-> FALSE]
            /\ ret' = <<>>
            /\ UNCHANGED <<cachedIndex, service>>
       ELSE
       LET cached == TTLCacheGet(service.cache, key, service.now)
           limit == checkRateLimit(service)
           counted == [service EXCEPT !.cache = cached.cache,
                                      !.requestCount = limit.requestCount,
                                      !.rateLimitWindow = limit.rateLimitWindow]
       IN IF cached.hit
          THEN /\ call' = [op |-> "generateAIInsights", key |-> key, caught |-> FALSE]
               /\ ret' = cached.value
               /\ UNCHANGED <<cachedIndex, service>>
          ELSE IF ~limit.ok
          THEN LET stale == CaughtResult(cached.cache, key, service.now)
               IN /\ call' = [op |-> "generateAIInsights", key |-> key,
                              caught |-> FALSE]
                  /\ ret' = stale.value
                  /\ service' = [counted EXCEPT !.cache = stale.cache]
                  /\ UNCHANGED cachedIndex
          ELSE /\ cachedIndex' = IF hasSpread THEN cachedIndex ELSE buildSpreadIndex
               /\ IF promptThrows
                  THEN LET stale == CaughtResult(cached.cache, key, service.now)
                       IN /\ call' = [op |-> "generateAIInsights", key |-> key,
                                      caught |-> TRUE]
                          /\ ret' = stale.value
                          /\ service' = [counted EXCEPT !.cache = stale.cache]
                  ELSE /\ service' = [counted EXCEPT !.waiting = @ \cup {key}]
                       /\ UNCHANGED <<call, ret>>

\* callClaudeAPI resolves: the insights are filtered, cut to three, cached
\* and returned
ApiResolves(key, insights) ==
    /\ service.enabled
    /\ key \in service.waiting
    /\ LET limitedInsights ==
               Slice(filterInsightsByConfidence(insights, MinConfidence), MaxInsights)
       IN /\ service' = [service EXCEPT
                             !.cache = TTLCacheSet(@, key, limitedInsights, service.now),
                             !.waiting = @ \ {key},
                             !.everCached = @ \cup {key}]
          /\ ret' = limitedInsights
    /\ call' = [op |-> "generateAIInsights", key |-> key, caught |-> FALSE]
    /\ UNCHANGED <<queryData, cachedIndex, iapData, args, build>>

\* callClaudeAPI rejects (no API key, timeout, a response that does not
\* parse): the catch block
ApiRejects(key) ==
    /\ service.enabled
    /\ key \in service.waiting
    /\ LET stale == CaughtResult(service.cache, key, service.now)
       IN /\ service' = [service EXCEPT !.cache = stale.cache, !.waiting = @ \ {key}]
          /\ ret' = stale.value
    /\ call' = [op |-> "generateAIInsights", key |-> key, caught |-> TRUE]
    /\ UNCHANGED <<queryData, cachedIndex, iapData, args, build>>

ClearExpiredCache ==
    /\ service.enabled
    /\ service' = [service EXCEPT !.cache = TTLCacheClearExpired(@, service.now)]
    /\ call' = [op |-> "clearExpiredCache"]
    /\ ret' = <<>>
    /\ UNCHANGED <<queryData, cachedIndex, iapData, args, build>>

\* Date.now() moves on
ClockTick ==
    /\ service.enabled
    /\ service.now < MaxClock
    /\ service' = [service EXCEPT !.now = @ + 1]
    /\ UNCHANGED <<queryData, cachedIndex, iapData, call, ret, args, build>>

InitService ==
    /\ queryData = <<>>
    /\ cachedIndex = NoIndex
    /\ iapData = <<>>
    /\ call = NoCall
    /\ ret = <<>>
    /\ args = NoArgs
    /\ build = NoBuild
    /\ service \in {ServiceAtLoad(enabled) : enabled \in BOOLEAN}

NextService ==
    \/ \E key \in CacheKeys, hasSpread \in BOOLEAN, promptThrows \in BOOLEAN :
           GenerateAIInsights(key, hasSpread, promptThrows)
    \/ \E key \in CacheKeys, insights \in ApiResponses : ApiResolves(key, insights)
    \/ \E key \in CacheKeys : ApiRejects(key)
    \/ ClearExpiredCache
    \/ ClockTick

SpecService == InitService /\ [][NextService]_vars

\* C24: when the prompt building or the API call fails inside
\* generateAIInsights and a result was cached earlier for the same key, the
\* cached result is returned, even when its TTL has expired; the empty list
\* is returned only when no result was ever cached for the key
C24_StaleResultOnFailure ==
    (call.op = "generateAIInsights" /\ call.caught /\ ret = <<>>) =>
        call.key \notin service.everCached

----------------------------------------------------------------------------
(* Properties of the terrain term of the IAP similarity score *)

\* the score of the last call with the terrain argument replaced by terrain
ScoreWithTerrain(terrain) ==
    calculateIAPSimilarity(call.incident, call.weather, call.cardType, call.iap,
                           terrain)

\* the score of the last call without its terrain term
ScoreWithoutTerrainTerm ==
    FuelPoints(call.incident, call.iap) + WindPoints(call.weather, call.iap)
        + HumidityPoints(call.weather, call.iap)
        + SectionPoints(call.cardType, call.iap)
        + ((ScalePointsTimes2(call.incident, call.iap) + 1) \div 2)

\* C25: the terrain argument influences the score for the tactics category
\* only: for evacuation and resources calculateIAPSimilarity returns the same
\* score for every terrain and for no terrain, the other inputs being equal;
\* for tactics without terrain, or with a record that has no raw text, no
\* terrain points are added
C25_TerrainOnlyForTactics ==
    call.op = "calculateIAPSimilarity" =>
        /\ call.cardType \in {"evacuation", "resources"} =>
               \A terrain \in Terrains : ScoreWithTerrain(terrain) = ret
        /\ (call.cardType = "tactics"
                /\ (~call.terrain.present \/ ~call.iap.rawText.present)) =>
               ret = ScoreWithoutTerrainTerm

\* a resources call with a terrain and a record whose raw text would earn
\* terrain points on a tactics card
C25_Witness ==
    /\ call.op = "calculateIAPSimilarity"
    /\ call.cardType = "resources"
    /\ call.terrain.present
    /\ call.iap.rawText.present
    /\ calculateTerrainSimilarity(call.terrain, call.iap.rawText) > 0
    /\ ret = ScoreWithTerrain(NoTerrain)

----------------------------------------------------------------------------
(* Properties of the section an insight is drawn from *)

\* section p of the record is the one the category selects: the first whose
\* type is in the relevant-section list, or the first section when no type is
IsSelectedSection(iap, cardType, p) ==
    LET relevant(q) == iap.sections[q].type \in RELEVANT_SECTIONS[cardType]
    IN \/ relevant(p) /\ \A q \in 1..(p - 1) : ~relevant(q)
       \/ p = 1 /\ \A q \in 1..Len(iap.sections) : ~relevant(q)

\* C26: each insight is drawn from the first section of its source record
\* whose type is in the category's relevant-section list, or from the record's
\* first section when no section type is in the list; its sectionType is the
\* type of a section of the source record
C26_InsightFromSelectedSection ==
    call.op = "findRelevantIAPs" =>
        \A i \in 1..Len(ret) :
            \E k \in 1..Len(iapData) :
                /\ iapData[k].id = ret[i].iapId
                /\ \E p \in 1..Len(iapData[k].sections) :
                       /\ IsSelectedSection(iapData[k], call.cardType, p)
                       /\ ret[i].sectionType = iapData[k].sections[p].type
                       /\ ret[i].tacticalSnippet
                              = extractTacticalSnippet(iapData[k].sections[p],
                                                       call.cardType, iapData[k])

\* one insight drawn from a relevant section that is not the first of its
\* record, another from the first section of a record without relevant ones
C26_Witness ==
    /\ call.op = "findRelevantIAPs"
    /\ \E i \in 1..Len(ret) : \E k \in 1..Len(iapData) :
           /\ iapData[k].id = ret[i].iapId
           /\ ret[i].sectionType \in RELEVANT_SECTIONS[call.cardType]
           /\ iapData[k].sections[1].type \notin RELEVANT_SECTIONS[call.cardType]
    /\ \E i \in 1..Len(ret) : ret[i].sectionType \notin RELEVANT_SECTIONS[call.cardType]

----------------------------------------------------------------------------
(* iap/index.ts: calculateDirectionalExtent.  A vertex of the outer ring   *)
(* is given by what turf.bearing and turf.distance return for it from the  *)
(* centroid: a bearing of -180 to 180 degrees, here in half degrees        *)
(* (-360 .. 360), and a distance.                                          *)

\* Object.entries(directions), with the bearings in degrees
DirectionBearings ==
    << [name |-> "N", bearing |-> 0], [name |-> "NE", bearing |-> 45],
       [name |-> "E", bearing |-> 90], [name |-> "SE", bearing |-> 135],
       [name |-> "S", bearing |-> 180], [name |-> "SW", bearing |-> 225],
       [name |-> "W", bearing |-> 270], [name |-> "NW", bearing |-> 315] >>

\* (bearing + 360) % 360, in half degrees
NormalizedBearing(bearing) == JsRemainder(bearing + 720, 720)

\* Math.min of the three absolute differences, in half degrees
AngleDiff(bearing, dirBearing) ==
    LET d == NormalizedBearing(bearing) - 2 * dirBearing
    IN Min(Abs(d), Min(Abs(d + 720), Abs(d - 720)))

\* the inner loop: the largest distance among the vertices within 22.5
\* degrees of the direction, 0 when there is none
RECURSIVE MaxDistInDir(_, _)
MaxDistInDir(coords, dirBearing) ==
    IF coords = <<>> THEN 0
    ELSE LET rest == MaxDistInDir(Tail(coords), dirBearing)
         IN IF AngleDiff(Head(coords).bearing, dirBearing) <= 45
            THEN Max(rest, Head(coords).distance)
            ELSE rest

\* mutation of ExceedsMaxExtent: a direction that equals the maximum takes over
ExceedsMaxExtent_OrEquals(maxDistInDir, maxExtent) == maxDistInDir >= maxExtent

\* if (maxDistInDir > maxExtent)
ExceedsMaxExtent(maxDistInDir, maxExtent) == maxDistInDir > maxExtent

\* the outer loop from direction k on, with maxExtent and dominantDirection
\* as they stand
RECURSIVE DominantFrom(_, _, _, _)
DominantFrom(coords, k, maxExtent, dominantDirection) ==
    IF k > Len(DirectionBearings) THEN dominantDirection
    ELSE LET maxDistInDir == MaxDistInDir(coords, DirectionBearings[k].bearing)
         IN IF ExceedsMaxExtent(maxDistInDir, maxExtent)
            THEN DominantFrom(coords, k + 1, maxDistInDir, DirectionBearings[k].bearing)
            ELSE DominantFrom(coords, k + 1, maxExtent, dominantDirection)

calculateDirectionalExtent(coords) ==
    [N |-> MaxDistInDir(coords, 0), E |-> MaxDistInDir(coords, 90),
     S |-> MaxDistInDir(coords, 180), W |-> MaxDistInDir(coords, 270),
     NE |-> MaxDistInDir(coords, 45), SE |-> MaxDistInDir(coords, 135),
     SW |-> MaxDistInDir(coords, 225), NW |-> MaxDistInDir(coords, 315),
     dominantDirection |-> DominantFrom(coords, 1, 0, 0)]

\* vertices at the centroid, on the bearings of the directions, on the edge
\* of the tolerance (22.5 degrees) and just outside it (23 degrees)
RingVertices ==
    { [bearing |-> 0, distance |-> 0] }
    \cup { [bearing |-> b, distance |-> d] :
             b \in {0, 45, 46, 180, 360, -360, -90, -45}, d \in {1, 2} }

CalculateDirectionalExtent ==
    /\ call.op = "none"
    /\ call' = [op |-> "calculateDirectionalExtent"]
    /\ ret' = calculateDirectionalExtent(args.coords)
    /\ UNCHANGED <<queryData, cachedIndex, iapData, args, build, service>>

InitExtent ==
    /\ queryData = <<>>
    /\ cachedIndex = NoIndex
    /\ iapData = <<>>
    /\ call = NoCall
    /\ ret = <<>>
    /\ args \in [coords : UNION { [1..n -> RingVertices] : n \in 1..MaxVertices }]
    /\ build = NoBuild
    /\ service = NoService

NextExtent == CalculateDirectionalExtent

SpecExtent == InitExtent /\ [][NextExtent]_vars

\* the vertex lies within 22.5 degrees of the bearing, measured round the
\* circle
WithinTolerance(vertex, dirBearing) ==
    LET turn == (vertex.bearing - 2 * dirBearing) % 720
    IN turn <= 45 \/ 720 - turn <= 45

\* C27: calculateDirectionalExtent reports as dominantDirection the bearing
\* (one of 0, 45, ..., 315) of the direction with the largest extent; among
\* directions that share the largest extent the earliest in the order N, NE,
\* E, SE, S, SW, W, NW wins; a direction with no vertex within 22.5 degrees
\* of its bearing has extent 0
C27_DominantIsLargestExtent ==
    call.op = "calculateDirectionalExtent" =>
        /\ \E k \in 1..Len(DirectionBearings) :
               /\ ret.dominantDirection = DirectionBearings[k].bearing
               /\ \A j \in 1..Len(DirectionBearings) :
                      ret[DirectionBearings[j].name] <= ret[DirectionBearings[k].name]
               /\ \A j \in 1..(k - 1) :
                      ret[DirectionBearings[j].name] < ret[DirectionBearings[k].name]
        /\ ret.dominantDirection >= 0 /\ ret.dominantDirection < 360
        /\ \A j \in 1..Len(DirectionBearings) :
               (\A i \in 1..Len(args.coords) :
                    ~WithinTolerance(args.coords[i], DirectionBearings[j].bearing))
                   => ret[DirectionBearings[j].name] = 0

\* east and south share the largest extent and east, the earlier, is
\* reported; no vertex lies to the north
C27_Witness ==
    /\ call.op = "calculateDirectionalExtent"
    /\ ret.E = 2 /\ ret.S = 2
    /\ ret.dominantDirection = 90
    /\ ret.N = 0

----------------------------------------------------------------------------
(* directional-spread.ts: calculateSpreadStatistics applied to a list of   *)
(* fires of the caller's choice                                            *)

\* a DirectionalSpread, reduced to the fields calculateSpreadStatistics reads
StatFire(dominantDirection) ==
    [rates |-> [north |-> 10, south |-> 10, east |-> 20, west |-> 20],
     shape |-> [dominantDirection |-> dominantDirection, elongation |-> 150]]

StatDirections == {"N", "NE", "S", "UNIFORM"}

CalculateSpreadStatistics ==
    /\ call.op = "none"
    /\ call' = [op |-> "calculateSpreadStatistics"]
    /\ ret' = calculateSpreadStatistics(args.fires)
    /\ UNCHANGED <<queryData, cachedIndex, iapData, args, build, service>>

InitStats ==
    /\ queryData = <<>>
    /\ cachedIndex = NoIndex
    /\ iapData = <<>>
    /\ call = NoCall
    /\ ret = <<>>
    /\ args \in [fires : UNION { [1..n -> {StatFire(d) : d \in StatDirections}] :
                                   n \in 0..MaxStatFires }]
    /\ build = NoBuild
    /\ service = NoService

NextStats == CalculateSpreadStatistics

SpecStats == InitStats /\ [][NextStats]_vars

\* the positions in the list handed over of the fires of the category
OccurrencesOf(dir) ==
    {i \in 1..Len(args.fires) : args.fires[i].shape.dominantDirection = dir}

FirstOccurrenceOf(dir) ==
    CHOOSE i \in OccurrencesOf(dir) : \A j \in OccurrencesOf(dir) : i <= j

\* C28: for a non-empty list calculateSpreadStatistics returns as
\* dominantDirection a category whose number of occurrences in the list is
\* the largest, and among the categories that share the largest number the
\* one whose first occurrence in the list is the earliest
C28_MajorityDirectionFirstWins ==
    (call.op = "calculateSpreadStatistics" /\ Len(args.fires) > 0) =>
        /\ OccurrencesOf(ret.dominantDirection) # {}
        /\ \A dir \in StatDirections :
               /\ Cardinality(OccurrencesOf(dir))
                      <= Cardinality(OccurrencesOf(ret.dominantDirection))
               /\ (/\ dir # ret.dominantDirection
                   /\ Cardinality(OccurrencesOf(dir))
                          = Cardinality(OccurrencesOf(ret.dominantDirection)))
                      => FirstOccurrenceOf(ret.dominantDirection) < FirstOccurrenceOf(dir)

\* S and N occur twice each, S first: S is returned
C28_Witness ==
    /\ call.op = "calculateSpreadStatistics"
    /\ Len(args.fires) = 4
    /\ args.fires[1].shape.dominantDirection = "S"
    /\ Cardinality(OccurrencesOf("S")) = 2
    /\ Cardinality(OccurrencesOf("N")) = 2
    /\ ret.dominantDirection = "S"

----------------------------------------------------------------------------
(* Properties of the queries as readers of the index *)

----------------------------------------------------------------------------
(* Properties of the dominant direction of a feature *)

====
